---- MODULE Spec2Model ----
(***************************************************************************)
(* PerformanceMonitor (src/unnamed/part_000, lines 632-1410): construction, *)
(* the report buffer, its transport, the report timer, teardown, and the   *)
(* observers and tracking methods that feed the buffer (LCP, FID, INP,     *)
(* CLS, FCP, TTI, resource analysis, custom metrics and timings), with the  *)
(* CLS observer of src/pagespeed-optimizer.js, loadModule and               *)
(* retryFailedModule of src/code-splitting-optimizer.js, the WebP           *)
(* conversion and error listener of ImageOptimizer (src/unnamed/part_001)   *)
(* and the stylesheet deferral of CriticalCSSOptimizer (part_000, 6-510).   *)
(*                                                                         *)
(* JavaScript runs every callback to completion on one thread, so each     *)
(* observer callback, timer tick, event listener and public method is one  *)
(* atomic action, and an async function one action per stretch between two *)
(* awaits.  Date.now() timestamps are left out of the samples; a    *)
(* sample's identity (a fresh object per reportMetric call) is its id.     *)
(* Layout-shift values are in thousandths (0.1 is 100); URLs are sequences  *)
(* of characters; toFixed results are integers in units of the last digit. *)
(***************************************************************************)
EXTENDS Integers, Sequences, FiniteSets, TLC

VARIABLES
  bufferSize,      \* this.options.bufferSize
  sendBeacon,      \* whether navigator.sendBeacon exists
  buffer,          \* this.buffer
  coreWebVitals,   \* this.metrics.coreWebVitals, a map from metric name to its data
  customMetrics,   \* this.metrics.customMetrics, a map from name to {value, unit}
  clsValue,        \* measureCLS: let clsValue
  sessionValue,    \* measureCLS: let sessionValue
  sessionEntries,  \* measureCLS: let sessionEntries
  reportTimer,     \* TRUE while the setInterval of setupReporting is live
  observer,        \* TRUE while this.observer is connected
  sent,            \* the calls made to navigator.sendBeacon and fetch, in order
  recorded,        \* number of reportMetric calls so far
  destroyed,       \* TRUE once destroy() has returned
  handler,         \* the callback that ran last
  shiftClock,      \* startTime of the last layout-shift entry the browser delivered
  shiftsSeen,      \* number of layout-shift entries delivered so far
  lastShift,       \* what the CLS callback saw when its last entry arrived
  lcpEntries,      \* the last batch of largest-contentful-paint entries delivered
  interactions,    \* measureINP: let interactions
  interactionLog,  \* every interaction measureINP has pushed, in arrival order
  firstInputLog,   \* every first-input entry the FID callback has processed, in order
  resourceTimings, \* this.metrics.resourceTimings
  userTimings,     \* this.metrics.userTimings
  analyses,        \* every entry analyzeResourcePerformance has seen, with its issues
  settled,         \* the fetch promises that have settled: pairs <<index in sent, outcome>>
  performanceObserver, \* whether window has PerformanceObserver
  options,         \* the enable flags of this.options that guard an observer
  phase,           \* "unconstructed", "ready" once the constructor returned, or "threw"
  pagespeed,       \* pagespeed-optimizer.js: the closure of its CLS observer, and gtag
  codeSplittingOptimizer, \* window.codeSplittingOptimizer and the loadModule calls in flight
  imageOptimizer,         \* window.imageOptimizer and the images of the document
  criticalCSSOptimizer    \* window.criticalCSSOptimizer and the stylesheet links

vars == <<bufferSize, sendBeacon, buffer, coreWebVitals, customMetrics, clsValue,
          sessionValue, sessionEntries, reportTimer, observer, sent, recorded,
          destroyed, handler, shiftClock, shiftsSeen, lastShift, lcpEntries,
          interactions, interactionLog, firstInputLog, resourceTimings, userTimings,
          analyses, settled, performanceObserver, options, phase, pagespeed,
          codeSplittingOptimizer, imageOptimizer, criticalCSSOptimizer>>

-----------------------------------------------------------------------------
(* Bounds of the model *)

MaxBufferSize == 3      \* options.bufferSize ranges over 1..MaxBufferSize
MaxSamples == 3         \* reportMetric calls explored in Spec
MaxBatch == 2           \* entries per observer notification
MaxShifts == 7          \* layout-shift entries explored in SpecCLS
MaxFlaggedShifts == 3   \* layout-shift entries explored in SpecCLSInput
MaxInteractions == 11   \* event entries explored in SpecINP
MaxVitals == 2          \* samples explored in SpecVitals
MaxResources == 2       \* resource entries explored in SpecResource
MaxTimings == 2         \* trackCustomTiming calls explored in SpecCustom
MaxCalls == 3           \* loadModule calls made by observers and click handlers
MaxRetries == 1         \* dropped loadModule promises explored in SpecRetry
MaxReassignments == 3   \* assignments of img.src by the error listener in SpecImage
MaxLinks == 2           \* link[rel="stylesheet"] elements of the document in SpecCSS

(* Program constants *)

DefaultBufferSize == 100
SessionGap == 1000
SessionSpan == 5000
WindowCapacity == 10        \* interactions kept by measureINP
PercentileNum == 98         \* the 0.98 of measureINP, as a fraction
PercentileDen == 100

\* code-splitting-optimizer.js
DefaultMaxRetries == 3
RetryDelay == 1000
PerformanceEntriesKept == 50

\* part_000 (CriticalCSSOptimizer)
FallbackDelay == 3000
DefaultOptions == [enableCoreWebVitals |-> TRUE, enableResourceTiming |-> TRUE]

(* Inputs *)

LCPTimes == {1200, 2600}
ShiftGaps == {5, 999, 1000}
ShiftValues == {0, 60}
CustomNames == {"cart"}
CustomValues == {7}
CustomTimingTypes == {"mark", "measure"}
CustomTimingData == {[startTime |-> 12]}
InteractionEntries == [interactionId : {0, 7}, duration : {40, 300}, startTime : {16}]
LCPBoundaryTimes == {2499, 2500, 2501, 4000, 4001}
FirstInputEntries == [startTime : {50}, processingStart : {150, 151, 350, 351}]
RatedInteractionEntries == [interactionId : {7}, duration : {200, 201, 500, 501},
                            startTime : {16}]
PaintEntries == [name : {"first-paint", "first-contentful-paint"},
                 startTime : {1800, 1801, 3000, 3001}]
NavigationEntries == [domInteractive : {3800, 3801, 7300, 7301}]

\* URLs, as sequences of characters.
CacheableNames ==
  {<<"a", ".", "c", "s", "s">>, <<"a", ".", "j", "s">>, <<"f", ".", "w", "o", "f", "f">>, <<"f", ".", "w", "o", "f", "f", "2">>,
   <<"i", ".", "p", "n", "g">>, <<"i", ".", "j", "p", "g">>, <<"i", ".", "j", "p", "e", "g">>}
OtherNames ==
  {<<"i", ".", "g", "i", "f">>, <<"a", ".", "j", "s", "?", "v">>, <<"a", "c", "s", "s">>}
ResourceNames == CacheableNames \cup OtherNames

\* transferSize, encodedBodySize and decodedBodySize of a response: one whose sizes
\* the browser withholds, one served from the cache, two from the network, and two
\* large ones compressed by a third and by half.
OpaqueSize == [transferSize |-> 0, encodedBodySize |-> 0, decodedBodySize |-> 0]
CachedSize == [transferSize |-> 0, encodedBodySize |-> 1000, decodedBodySize |-> 3000]
NetworkSize == [transferSize |-> 1300, encodedBodySize |-> 1000, decodedBodySize |-> 3000]
ResourceSizes ==
  {OpaqueSize, CachedSize, NetworkSize,
   [transferSize |-> 2000300, encodedBodySize |-> 2000000, decodedBodySize |-> 3000000],
   [transferSize |-> 2000300, encodedBodySize |-> 2000000, decodedBodySize |-> 4000000]}

\* A PerformanceResourceTiming entry; its duration is responseEnd - startTime.
ResourceEntry(name, size, startTime, responseEnd) ==
  [entryType |-> "resource", name |-> name, transferSize |-> size.transferSize,
   encodedBodySize |-> size.encodedBodySize, decodedBodySize |-> size.decodedBodySize,
   startTime |-> startTime, responseEnd |-> responseEnd,
   duration |-> responseEnd - startTime]

ResourceEntries ==
  {ResourceEntry(name, NetworkSize, 100, 3100) : name \in ResourceNames}
  \cup {ResourceEntry(name, size, 100, responseEnd) :
          name \in {<<"a", ".", "c", "s", "s">>, <<"i", ".", "g", "i", "f">>},
          size \in ResourceSizes, responseEnd \in {3100, 3101}}

\* code-splitting-optimizer.js: the module ids the page asks for, and the ones whose
\* default export has init.
ModuleIds == {"./modules/maps.js", "./polyfills/fetch.js"}

ModulesWithInit == {"./modules/maps.js"}

NoModule == [specifier |-> "undefined", init |-> FALSE]

FailedToFetch == "Failed to fetch dynamically imported module"

NoError == [message |-> <<>>]

\* The message a rejected import(moduleId) carries is the engine's: the one of
\* Chromium, the same without a specifier, or another text.
Engines == {"specifier", "no-specifier", "other"}

ImportError(engine, moduleId) ==
  IF engine = "specifier" THEN [message |-> <<FailedToFetch, ": ", moduleId>>]
  ELSE IF engine = "no-specifier" THEN [message |-> <<FailedToFetch>>]
  ELSE [message |-> <<"error loading dynamically imported module">>]

\* What a rejected default.init(options) carries.
InitError == [message |-> <<"init failed">>]

\* part_001 (ImageOptimizer): a URL is the sequence of its parts. The fallback image of
\* the DOMContentLoaded initializer, and no fallback image.
Placeholder == <<"/assets/images/placeholder", ".jpg">>

NoUrl == <<>>

ImageUrls ==
  {<<"/a", ".jpg">>, <<"/a", ".JPG">>, <<"/a", ".png">>, <<"/a", ".webp">>, <<"/a", ".gif">>,
   <<"https://res.", "cloudinary.com", "/a", ".jpeg">>,
   <<"https://ik.", "imagekit.io", "/a", ".jpg">>,
   <<"https://ik.", "imagekit.io", "/a", ".jpg", "?", "w=1">>}

Srcsets == {NoUrl, <<"/a", ".jpg", " 1x, ", "/b", ".PNG", " 2x">>}

\* The options a page passes to new ImageOptimizer; the initializer of the file passes
\* webpSupport: true and the placeholder.
ImageOptions == [webpSupport : BOOLEAN, fallbackImage : {NoUrl, Placeholder}]

\* The img element of the document: one with src, or a lazy one with data-src.
NewImg(src, dataSrc, dataSrcset) ==
  [src |-> src, srcset |-> NoUrl, dataSrc |-> dataSrc, dataSrcset |-> dataSrcset,
   status |-> IF src = NoUrl THEN "idle" ELSE "loading", errorClass |-> FALSE,
   loadedClass |-> FALSE, observed |-> dataSrc # NoUrl, reassigned |-> 0,
   imageLoader |-> NoUrl, testImg |-> NoUrl]

DocumentImages ==
  {NewImg(src, NoUrl, NoUrl) : src \in ImageUrls}
    \cup {NewImg(NoUrl, url[1], url[2]) : url \in ImageUrls \X Srcsets}

\* part_000 (CriticalCSSOptimizer): the href of a stylesheet link, as the sequence of
\* its parts.
LinkHrefs ==
  {<<"/css/", "main", ".css">>, <<"/css/", "critical", ".css">>,
   <<"/css/", "Above-Fold", ".css">>, <<"https://", "fonts", ".googleapis.com", "/css2">>}

\* The options of new CriticalCSSOptimizer that decide what run() does to the links.
CssOptions ==
  [deferNonCritical : BOOLEAN, loadFontsAsync : BOOLEAN, useIntersectionObserver : BOOLEAN]

\* A link[rel="stylesheet"] of the document before run(): timers holds the delays of
\* the setTimeout calls that have not fired, loadListener whether loadStylesheet
\* listens for the load event of window, onload whether link.onload is set.
NewLink(href) ==
  [href |-> href, media |-> "all", deferred |-> FALSE, timers |-> {},
   loadListener |-> FALSE, onload |-> FALSE, everDeferred |-> FALSE]

Batches(S, n) == UNION {[1..k -> S] : k \in 1..n}

Last(s) == s[Len(s)]

Min(S) == CHOOSE x \in S : \A y \in S : x <= y

Max2(a, b) == IF a >= b THEN a ELSE b

\* Array.prototype.sort((a, b) => a - b)
RECURSIVE Insert(_, _)
Insert(x, s) ==
  IF s = <<>> THEN <<x>>
  ELSE IF x <= Head(s) THEN <<x>> \o s
  ELSE <<Head(s)>> \o Insert(x, Tail(s))

RECURSIVE SortAscending(_)
SortAscending(s) ==
  IF s = <<>> THEN <<>> ELSE Insert(Head(s), SortAscending(Tail(s)))

\* Array.prototype.slice(-n)
SliceLast(s, n) == IF Len(s) > n THEN SubSeq(s, Len(s) - n + 1, Len(s)) ELSE s

\* url.match(/suffix$/) for a literal suffix
EndsWith(url, suffix) ==
  /\ Len(url) >= Len(suffix)
  /\ SubSeq(url, Len(url) - Len(suffix) + 1, Len(url)) = suffix

EndsWithAny(url, suffixes) == \E suffix \in suffixes : EndsWith(url, suffix)

\* String.prototype.includes
Includes(url, part) ==
  \E i \in 1..(Len(url) - Len(part) + 1) : SubSeq(url, i, i + Len(part) - 1) = part

\* (num / den).toFixed(digits) in units of 1/scale, scale = 10^digits, for num >= 0
ToFixed(num, den, scale) ==
  (num \div den) * scale + (2 * (num % den) * scale + den) \div (2 * den)

Elements(s) == {s[k] : k \in 1..Len(s)}

-----------------------------------------------------------------------------
(* The monitor object and the closures of its observers, as one record that *)
(* the methods below transform.                                             *)

Self ==
  [buffer |-> buffer, coreWebVitals |-> coreWebVitals, customMetrics |-> customMetrics,
   clsValue |-> clsValue, sessionValue |-> sessionValue,
   sessionEntries |-> sessionEntries, sent |-> sent, recorded |-> recorded,
   lastShift |-> lastShift, interactions |-> interactions,
   interactionLog |-> interactionLog, firstInputLog |-> firstInputLog,
   resourceTimings |-> resourceTimings, userTimings |-> userTimings,
   analyses |-> analyses]

Becomes(m) ==
  /\ buffer' = m.buffer
  /\ coreWebVitals' = m.coreWebVitals
  /\ customMetrics' = m.customMetrics
  /\ clsValue' = m.clsValue
  /\ sessionValue' = m.sessionValue
  /\ sessionEntries' = m.sessionEntries
  /\ sent' = m.sent
  /\ recorded' = m.recorded
  /\ lastShift' = m.lastShift
  /\ interactions' = m.interactions
  /\ interactionLog' = m.interactionLog
  /\ firstInputLog' = m.firstInputLog
  /\ resourceTimings' = m.resourceTimings
  /\ userTimings' = m.userTimings
  /\ analyses' = m.analyses

\* Mutation of rateLCP: < for <=.
rateLCPExclusive(value) ==
  IF value < 2500 THEN "good"
  ELSE IF value < 4000 THEN "needs-improvement"
  ELSE "poor"

rateLCP(value) ==
  IF value <= 2500 THEN "good"
  ELSE IF value <= 4000 THEN "needs-improvement"
  ELSE "poor"

rateCLS(value) ==
  IF value <= 100 THEN "good"
  ELSE IF value <= 250 THEN "needs-improvement"
  ELSE "poor"

rateFID(value) ==
  IF value <= 100 THEN "good"
  ELSE IF value <= 300 THEN "needs-improvement"
  ELSE "poor"

rateINP(value) ==
  IF value <= 200 THEN "good"
  ELSE IF value <= 500 THEN "needs-improvement"
  ELSE "poor"

rateFCP(value) ==
  IF value <= 1800 THEN "good"
  ELSE IF value <= 3000 THEN "needs-improvement"
  ELSE "poor"

rateTTI(value) ==
  IF value <= 3800 THEN "good"
  ELSE IF value <= 7300 THEN "needs-improvement"
  ELSE "poor"

getSummary(m) ==
  [coreWebVitals |-> m.coreWebVitals,
   resourceCount |-> Len(m.resourceTimings),
   userTimingCount |-> Len(m.userTimings),
   customMetricCount |-> Cardinality(DOMAIN m.customMetrics)]

-----------------------------------------------------------------------------
(* Report buffer and transport *)

\* Mutations of sendReport.
\* metrics aliases this.buffer, which is then truncated in place.
sendReportAliased(m, immediate, site) ==
  IF Len(m.buffer) = 0 THEN m
  ELSE
    LET report == [metrics |-> <<>>, summary |-> getSummary(m)]
        call ==
          IF immediate /\ sendBeacon
          THEN [via |-> "sendBeacon", headers |-> {}, report |-> report,
                immediate |-> immediate, site |-> site]
          ELSE [via |-> "fetch", headers |-> {<<"Content-Type", "application/json">>},
                report |-> report, immediate |-> immediate, site |-> site]
    IN [m EXCEPT !.buffer = <<>>, !.sent = Append(@, call)]

\* The early return on an empty buffer is missing.
sendReportUnguarded(m, immediate, site) ==
  LET report == [metrics |-> m.buffer, summary |-> getSummary(m)]
      call ==
        IF immediate /\ sendBeacon
        THEN [via |-> "sendBeacon", headers |-> {}, report |-> report,
              immediate |-> immediate, site |-> site]
        ELSE [via |-> "fetch", headers |-> {<<"Content-Type", "application/json">>},
              report |-> report, immediate |-> immediate, site |-> site]
  IN [m EXCEPT !.buffer = <<>>, !.sent = Append(@, call)]

\* navigator.sendBeacon is not probed.
sendReportBeaconUnchecked(m, immediate, site) ==
  IF Len(m.buffer) = 0 THEN m
  ELSE
    LET report == [metrics |-> m.buffer, summary |-> getSummary(m)]
        call ==
          IF immediate
          THEN [via |-> "sendBeacon", headers |-> {}, report |-> report,
                immediate |-> immediate, site |-> site]
          ELSE [via |-> "fetch", headers |-> {<<"Content-Type", "application/json">>},
                report |-> report, immediate |-> immediate, site |-> site]
    IN [m EXCEPT !.buffer = <<>>, !.sent = Append(@, call)]

\* this.buffer = [] is missing.
sendReportKeepsBuffer(m, immediate, site) ==
  IF Len(m.buffer) = 0 THEN m
  ELSE
    LET report == [metrics |-> m.buffer, summary |-> getSummary(m)]
        call ==
          IF immediate /\ sendBeacon
          THEN [via |-> "sendBeacon", headers |-> {}, report |-> report,
                immediate |-> immediate, site |-> site]
          ELSE [via |-> "fetch", headers |-> {<<"Content-Type", "application/json">>},
                report |-> report, immediate |-> immediate, site |-> site]
    IN [m EXCEPT !.sent = Append(@, call)]

\* sendReport(immediate); `site` names the call site and is kept with the call.
sendReport(m, immediate, site) ==
  IF Len(m.buffer) = 0 THEN m
  ELSE
    LET report == [metrics |-> m.buffer, summary |-> getSummary(m)]
        call ==
          IF immediate /\ sendBeacon
          THEN [via |-> "sendBeacon", headers |-> {}, report |-> report,
                immediate |-> immediate, site |-> site]
          ELSE [via |-> "fetch", headers |-> {<<"Content-Type", "application/json">>},
                report |-> report, immediate |-> immediate, site |-> site]
    IN [m EXCEPT !.buffer = <<>>, !.sent = Append(@, call)]

\* Mutation of reportMetric: > for >=. It needs sendReport, so it stands here.
reportMetricLate(m, name, data) ==
  LET sample == [id |-> m.recorded + 1, name |-> name, data |-> data]
      pushed == [m EXCEPT !.buffer = Append(@, sample), !.recorded = @ + 1]
  IN IF Len(pushed.buffer) > bufferSize
     THEN sendReport(pushed, FALSE, "reportMetric")
     ELSE pushed

\* Mutation of reportMetric: the buffer length is not tested.
reportMetricUnbounded(m, name, data) ==
  LET sample == [id |-> m.recorded + 1, name |-> name, data |-> data]
  IN [m EXCEPT !.buffer = Append(@, sample), !.recorded = @ + 1]

reportMetric(m, name, data) ==
  LET sample == [id |-> m.recorded + 1, name |-> name, data |-> data]
      pushed == [m EXCEPT !.buffer = Append(@, sample), !.recorded = @ + 1]
  IN IF Len(pushed.buffer) >= bufferSize
     THEN sendReport(pushed, FALSE, "reportMetric")
     ELSE pushed

-----------------------------------------------------------------------------
(* Observer callbacks *)

\* Mutation of lcpCallback: the first entry of the batch, not the last.
lcpCallbackFirstEntry(m, entries) ==
  LET firstEntry == entries[1]
      lcp == [value |-> firstEntry.startTime, rating |-> rateLCP(firstEntry.startTime)]
  IN reportMetric([m EXCEPT !.coreWebVitals = ("lcp" :> lcp) @@ @], "lcp", lcp)

\* The callback of measureLCP on a batch of largest-contentful-paint entries.
lcpCallback(m, entries) ==
  LET lastEntry == entries[Len(entries)]
      lcp == [value |-> lastEntry.startTime, rating |-> rateLCP(lastEntry.startTime)]
  IN reportMetric([m EXCEPT !.coreWebVitals = ("lcp" :> lcp) @@ @], "lcp", lcp)

\* Mutation of fidEntry: processingStart alone, startTime not subtracted.
fidEntryFromOrigin(m, entry) ==
  LET fid == entry.processingStart
      data == [value |-> fid, rating |-> rateFID(fid)]
  IN reportMetric([m EXCEPT !.coreWebVitals = ("fid" :> data) @@ @,
                            !.firstInputLog = Append(@, entry)],
                  "fid", data)

\* The body of the forEach in the first-input callback of measureInteractionMetrics.
fidEntry(m, entry) ==
  LET fid == entry.processingStart - entry.startTime
      data == [value |-> fid, rating |-> rateFID(fid)]
  IN reportMetric([m EXCEPT !.coreWebVitals = ("fid" :> data) @@ @,
                            !.firstInputLog = Append(@, entry)],
                  "fid", data)

RECURSIVE fidCallback(_, _)
fidCallback(m, entries) ==
  IF entries = <<>> THEN m
  ELSE fidCallback(fidEntry(m, Head(entries)), Tail(entries))

\* The callback of measureFCP on a batch of paint entries.
fcpCallback(m, entries) ==
  LET found == {k \in 1..Len(entries) : entries[k].name = "first-contentful-paint"}
  IN IF found = {} THEN m
     ELSE LET fcpEntry == entries[Min(found)]
              data == [value |-> fcpEntry.startTime, rating |-> rateFCP(fcpEntry.startTime)]
          IN reportMetric([m EXCEPT !.coreWebVitals = ("fcp" :> data) @@ @], "fcp", data)

\* The callback of measureTTI on a batch of navigation entries.
ttiCallback(m, entries) ==
  IF Len(entries) > 0
  THEN LET tti == entries[1].domInteractive
           data == [value |-> tti, rating |-> rateTTI(tti)]
       IN reportMetric([m EXCEPT !.coreWebVitals = ("tti" :> data) @@ @], "tti", data)
  ELSE m

NoShift ==
  [processed |-> FALSE, entry |-> [startTime |-> 0, value |-> 0, hadRecentInput |-> FALSE],
   lenBefore |-> 0, sumBefore |-> 0, gap |-> 0, span |-> 0, peakBefore |-> 0,
   recordedBefore |-> 0]

\* What the callback saw when `entry` arrived: the session's length and sum, the
\* distance of the entry from the session's last and first entries, and the largest
\* session sum there had been until then.
Seen(m, entry) ==
  [processed |-> TRUE, entry |-> entry,
   lenBefore |-> Len(m.sessionEntries), sumBefore |-> m.sessionValue,
   gap |-> IF m.sessionEntries = <<>> THEN 0
           ELSE entry.startTime - Last(m.sessionEntries).startTime,
   span |-> IF m.sessionEntries = <<>> THEN 0
            ELSE entry.startTime - m.sessionEntries[1].startTime,
   peakBefore |-> Max2(m.lastShift.peakBefore, m.sessionValue),
   recordedBefore |-> m.recorded]

\* Mutation of clsEntry: <= for < in both comparisons.
clsEntryInclusive(m, entry) ==
  IF entry.hadRecentInput
  THEN [m EXCEPT !.lastShift = Seen(m, entry)]
  ELSE
    LET continues ==
          /\ m.sessionValue # 0
          /\ entry.startTime - Last(m.sessionEntries).startTime <= SessionGap
          /\ entry.startTime - m.sessionEntries[1].startTime <= SessionSpan
        m1 ==
          IF continues
          THEN [m EXCEPT !.sessionValue = @ + entry.value,
                         !.sessionEntries = Append(@, entry),
                         !.lastShift = Seen(m, entry)]
          ELSE [m EXCEPT !.sessionValue = entry.value,
                         !.sessionEntries = <<entry>>,
                         !.lastShift = Seen(m, entry)]
        cls == [value |-> m1.sessionValue, rating |-> rateCLS(m1.sessionValue)]
    IN IF m1.sessionValue > m1.clsValue
       THEN reportMetric([m1 EXCEPT !.clsValue = m1.sessionValue,
                                    !.coreWebVitals = ("cls" :> cls) @@ @],
                         "cls", cls)
       ELSE m1

\* Mutation of clsEntry: a session is continued when it has entries, whatever its sum.
clsEntryByEntries(m, entry) ==
  IF entry.hadRecentInput
  THEN [m EXCEPT !.lastShift = Seen(m, entry)]
  ELSE
    LET continues ==
          /\ m.sessionEntries # <<>>
          /\ entry.startTime - Last(m.sessionEntries).startTime < SessionGap
          /\ entry.startTime - m.sessionEntries[1].startTime < SessionSpan
        m1 ==
          IF continues
          THEN [m EXCEPT !.sessionValue = @ + entry.value,
                         !.sessionEntries = Append(@, entry),
                         !.lastShift = Seen(m, entry)]
          ELSE [m EXCEPT !.sessionValue = entry.value,
                         !.sessionEntries = <<entry>>,
                         !.lastShift = Seen(m, entry)]
        cls == [value |-> m1.sessionValue, rating |-> rateCLS(m1.sessionValue)]
    IN IF m1.sessionValue > m1.clsValue
       THEN reportMetric([m1 EXCEPT !.clsValue = m1.sessionValue,
                                    !.coreWebVitals = ("cls" :> cls) @@ @],
                         "cls", cls)
       ELSE m1

\* Mutation of clsEntry: the hadRecentInput test is dropped.
clsEntryCountsInput(m, entry) ==
  LET continues ==
        /\ m.sessionValue # 0
        /\ entry.startTime - Last(m.sessionEntries).startTime < SessionGap
        /\ entry.startTime - m.sessionEntries[1].startTime < SessionSpan
      m1 ==
        IF continues
        THEN [m EXCEPT !.sessionValue = @ + entry.value,
                       !.sessionEntries = Append(@, entry),
                       !.lastShift = Seen(m, entry)]
        ELSE [m EXCEPT !.sessionValue = entry.value,
                       !.sessionEntries = <<entry>>,
                       !.lastShift = Seen(m, entry)]
      cls == [value |-> m1.sessionValue, rating |-> rateCLS(m1.sessionValue)]
  IN IF m1.sessionValue > m1.clsValue
     THEN reportMetric([m1 EXCEPT !.clsValue = m1.sessionValue,
                                  !.coreWebVitals = ("cls" :> cls) @@ @],
                       "cls", cls)
     ELSE m1

\* Mutation of clsEntry: >= for > in the comparison with clsValue.
clsEntryReportsTies(m, entry) ==
  IF entry.hadRecentInput
  THEN [m EXCEPT !.lastShift = Seen(m, entry)]
  ELSE
    LET continues ==
          /\ m.sessionValue # 0
          /\ entry.startTime - Last(m.sessionEntries).startTime < SessionGap
          /\ entry.startTime - m.sessionEntries[1].startTime < SessionSpan
        m1 ==
          IF continues
          THEN [m EXCEPT !.sessionValue = @ + entry.value,
                         !.sessionEntries = Append(@, entry),
                         !.lastShift = Seen(m, entry)]
          ELSE [m EXCEPT !.sessionValue = entry.value,
                         !.sessionEntries = <<entry>>,
                         !.lastShift = Seen(m, entry)]
        cls == [value |-> m1.sessionValue, rating |-> rateCLS(m1.sessionValue)]
    IN IF m1.sessionValue >= m1.clsValue
       THEN reportMetric([m1 EXCEPT !.clsValue = m1.sessionValue,
                                    !.coreWebVitals = ("cls" :> cls) @@ @],
                         "cls", cls)
       ELSE m1

\* The body of the forEach in the callback of measureCLS, for one entry.
clsEntry(m, entry) ==
  IF entry.hadRecentInput
  THEN [m EXCEPT !.lastShift = Seen(m, entry)]
  ELSE
    LET continues ==
          /\ m.sessionValue # 0
          /\ entry.startTime - Last(m.sessionEntries).startTime < SessionGap
          /\ entry.startTime - m.sessionEntries[1].startTime < SessionSpan
        m1 ==
          IF continues
          THEN [m EXCEPT !.sessionValue = @ + entry.value,
                         !.sessionEntries = Append(@, entry),
                         !.lastShift = Seen(m, entry)]
          ELSE [m EXCEPT !.sessionValue = entry.value,
                         !.sessionEntries = <<entry>>,
                         !.lastShift = Seen(m, entry)]
        cls == [value |-> m1.sessionValue, rating |-> rateCLS(m1.sessionValue)]
    IN IF m1.sessionValue > m1.clsValue
       THEN reportMetric([m1 EXCEPT !.clsValue = m1.sessionValue,
                                    !.coreWebVitals = ("cls" :> cls) @@ @],
                         "cls", cls)
       ELSE m1

RECURSIVE clsCallback(_, _)
clsCallback(m, entries) ==
  IF entries = <<>> THEN m
  ELSE clsCallback(clsEntry(m, Head(entries)), Tail(entries))

\* Mutation of inpEntry: slice(0, 10) for slice(-10).
inpEntryKeepsOldest(m, entry) ==
  IF entry.interactionId = 0 THEN m
  ELSE
    LET interaction == [id |-> entry.interactionId, latency |-> entry.duration,
                        timestamp |-> entry.startTime]
        pushed == Append(m.interactions, interaction)
        window == IF Len(pushed) > WindowCapacity
                  THEN SubSeq(pushed, 1, WindowCapacity)
                  ELSE pushed
        sortedLatencies == SortAscending([k \in 1..Len(window) |-> window[k].latency])
        inp == sortedLatencies[((Len(sortedLatencies) * PercentileNum) \div PercentileDen) + 1]
        data == [value |-> inp, rating |-> rateINP(inp), interactions |-> Len(window)]
    IN reportMetric([m EXCEPT !.interactions = window,
                              !.interactionLog = Append(@, interaction),
                              !.coreWebVitals = ("inp" :> data) @@ @],
                    "inp", data)

\* Mutation of inpEntry: the median, 0.5 for 0.98.
inpEntryMedian(m, entry) ==
  IF entry.interactionId = 0 THEN m
  ELSE
    LET interaction == [id |-> entry.interactionId, latency |-> entry.duration,
                        timestamp |-> entry.startTime]
        pushed == Append(m.interactions, interaction)
        window == IF Len(pushed) > WindowCapacity
                  THEN SliceLast(pushed, WindowCapacity)
                  ELSE pushed
        sortedLatencies == SortAscending([k \in 1..Len(window) |-> window[k].latency])
        inp == sortedLatencies[(Len(sortedLatencies) \div 2) + 1]
        data == [value |-> inp, rating |-> rateINP(inp), interactions |-> Len(window)]
    IN reportMetric([m EXCEPT !.interactions = window,
                              !.interactionLog = Append(@, interaction),
                              !.coreWebVitals = ("inp" :> data) @@ @],
                    "inp", data)

\* The body of the forEach in the callback of measureINP, for one entry.
inpEntry(m, entry) ==
  IF entry.interactionId = 0 THEN m
  ELSE
    LET interaction == [id |-> entry.interactionId, latency |-> entry.duration,
                        timestamp |-> entry.startTime]
        pushed == Append(m.interactions, interaction)
        window == IF Len(pushed) > WindowCapacity
                  THEN SliceLast(pushed, WindowCapacity)
                  ELSE pushed
        sortedLatencies == SortAscending([k \in 1..Len(window) |-> window[k].latency])
        inp == sortedLatencies[((Len(sortedLatencies) * PercentileNum) \div PercentileDen) + 1]
        data == [value |-> inp, rating |-> rateINP(inp), interactions |-> Len(window)]
    IN reportMetric([m EXCEPT !.interactions = window,
                              !.interactionLog = Append(@, interaction),
                              !.coreWebVitals = ("inp" :> data) @@ @],
                    "inp", data)

RECURSIVE inpCallback(_, _)
inpCallback(m, entries) ==
  IF entries = <<>> THEN m
  ELSE inpCallback(inpEntry(m, Head(entries)), Tail(entries))

getResourceType(url) ==
  IF EndsWith(url, <<".", "c", "s", "s">>) THEN "stylesheet"
  ELSE IF EndsWith(url, <<".", "j", "s">>) THEN "script"
  ELSE IF EndsWithAny(url, {<<".", "p", "n", "g">>, <<".", "j", "p", "g">>, <<".", "j", "p", "e", "g">>,
                            <<".", "g", "i", "f">>, <<".", "w", "e", "b", "p">>, <<".", "a", "v", "i", "f">>,
                            <<".", "s", "v", "g">>}) THEN "image"
  ELSE IF EndsWithAny(url, {<<".", "w", "o", "f", "f">>, <<".", "w", "o", "f", "f", "2">>,
                            <<".", "t", "t", "f">>, <<".", "e", "o", "t">>}) THEN "font"
  ELSE IF EndsWithAny(url, {<<".", "m", "p", "4">>, <<".", "w", "e", "b", "m">>, <<".", "o", "g", "g">>}) THEN "video"
  ELSE IF Includes(url, <<"/", "a", "p", "i", "/">>) \/ Includes(url, <<"w", "p", "-", "j", "s", "o", "n">>)
  THEN "api"
  ELSE "other"

\* Mutation of slowLoading: >= for >.
slowLoadingInclusive(analysis) == analysis.duration >= 3000

\* analyzeResourcePerformance: the test for 'slow_loading'.
slowLoading(analysis) == analysis.duration > 3000

\* analyzeResourcePerformance: the test for 'poor_compression'; compression is in
\* tenths of a percent.
poorCompression(analysis) == analysis.size > 1000000 /\ analysis.compression < 50 * 10

\* Mutation of cached: the transfer size alone decides.
cachedByTransferSize(entry) == entry.transferSize = 0

\* analyzeResourcePerformance: analysis.cached.
cached(entry) == entry.transferSize = 0 /\ entry.decodedBodySize > 0

\* analyzeResourcePerformance: the test for 'not_cached'.
notCached(analysis, entry) ==
  /\ ~analysis.cached
  /\ EndsWithAny(entry.name, {<<".", "c", "s", "s">>, <<".", "j", "s">>, <<".", "w", "o", "f", "f">>,
                              <<".", "w", "o", "f", "f", "2">>, <<".", "p", "n", "g">>, <<".", "j", "p", "g">>,
                              <<".", "j", "p", "e", "g">>})

analyzeResourcePerformance(m, entry) ==
  LET analysis ==
        [name |-> entry.name,
         type |-> getResourceType(entry.name),
         size |-> entry.transferSize,
         duration |-> entry.responseEnd - entry.startTime,
         cached |-> cached(entry),
         compression |->
           IF entry.encodedBodySize > 0
           THEN ToFixed((entry.decodedBodySize - entry.encodedBodySize) * 100,
                        entry.decodedBodySize, 10)
           ELSE 0,
         efficiency |->
           IF entry.duration > 0
           THEN ToFixed(entry.transferSize, entry.duration, 100)
           ELSE 0]
      issues ==
        (IF slowLoading(analysis) THEN <<"slow_loading">> ELSE <<>>)
        \o (IF poorCompression(analysis) THEN <<"poor_compression">> ELSE <<>>)
        \o (IF notCached(analysis, entry) THEN <<"not_cached">> ELSE <<>>)
      seen == [m EXCEPT !.analyses = Append(@, [entry |-> entry, issues |-> issues])]
  IN IF Len(issues) > 0
     THEN reportMetric(seen, "resource_issue", [analysis |-> analysis, issues |-> issues])
     ELSE seen

\* The callback of the observer of setupResourceTimingMonitoring.
RECURSIVE resourceCallback(_, _)
resourceCallback(m, entries) ==
  IF entries = <<>> THEN m
  ELSE resourceCallback(analyzeResourcePerformance(m, Head(entries)), Tail(entries))

alertSlowResource(m, resource) ==
  reportMetric(m, "alert", [type |-> "slow_resource", resource |-> resource.name,
                            duration |-> resource.duration, threshold |-> 3000])

alertLongTask(m, task) ==
  reportMetric(m, "alert", [type |-> "long_task", duration |-> task.duration,
                            threshold |-> 50])

processResourceTiming(m, entry) ==
  LET resourceData == [name |-> entry.name, type |-> getResourceType(entry.name),
                       size |-> entry.transferSize,
                       duration |-> entry.responseEnd - entry.startTime]
      pushed == [m EXCEPT !.resourceTimings = Append(@, resourceData)]
  IN IF resourceData.duration > 3000
     THEN alertSlowResource(pushed, resourceData)
     ELSE pushed

processLongTask(m, entry) == alertLongTask(m, [duration |-> entry.duration])

processPerformanceEntry(m, entry) ==
  CASE entry.entryType \in {"measure", "mark"} ->
         [m EXCEPT !.userTimings =
            Append(@, [name |-> entry.name, type |-> entry.entryType,
                       startTime |-> entry.startTime, duration |-> entry.duration])]
    [] entry.entryType = "resource" -> processResourceTiming(m, entry)
    [] entry.entryType = "longtask" -> processLongTask(m, entry)
    [] OTHER -> m

\* The callback of this.observer (setupPerformanceObserver).
RECURSIVE observerCallback(_, _)
observerCallback(m, entries) ==
  IF entries = <<>> THEN m
  ELSE observerCallback(processPerformanceEntry(m, Head(entries)), Tail(entries))

\* pagespeed-optimizer.js right after initPerformanceMonitoring; gtag is defined once
\* the analytics script of the page has loaded.
CombinedScript ==
  [clsValue |-> 0, sessionValue |-> 0, sessionEntries |-> <<>>, updates |-> <<>>,
   gtag |-> FALSE]

\* Mutation of combinedClsEntry: <= for < in the comparison with 1000.
combinedClsEntryInclusive(p, entry) ==
  IF entry.hadRecentInput THEN p
  ELSE
    LET continues ==
          /\ p.sessionValue # 0
          /\ entry.startTime - Last(p.sessionEntries).startTime <= 1000
          /\ entry.startTime - p.sessionEntries[1].startTime < 5000
        p1 ==
          IF continues
          THEN [p EXCEPT !.sessionValue = @ + entry.value,
                         !.sessionEntries = Append(@, entry)]
          ELSE [p EXCEPT !.sessionValue = entry.value, !.sessionEntries = <<entry>>]
    IN IF p1.sessionValue > p1.clsValue
       THEN LET cls == p1.sessionValue
                update == [value |-> cls,
                           rating |-> IF cls <= 100 THEN "good"
                                      ELSE IF cls <= 250 THEN "needs-improvement"
                                      ELSE "poor",
                           gtag |-> p1.gtag]
            IN [p1 EXCEPT !.clsValue = cls, !.updates = Append(@, update)]
       ELSE p1

\* pagespeed-optimizer.js: the body of the forEach of the layout-shift observer. An
\* update is the branch that raises clsValue; its gtag field tells whether the
\* web_vital event was sent (debugMode is off, so nothing is logged). Values are
\* thousandths, which toFixed(3) leaves as they are.
combinedClsEntry(p, entry) ==
  IF entry.hadRecentInput THEN p
  ELSE
    LET continues ==
          /\ p.sessionValue # 0
          /\ entry.startTime - Last(p.sessionEntries).startTime < 1000
          /\ entry.startTime - p.sessionEntries[1].startTime < 5000
        p1 ==
          IF continues
          THEN [p EXCEPT !.sessionValue = @ + entry.value,
                         !.sessionEntries = Append(@, entry)]
          ELSE [p EXCEPT !.sessionValue = entry.value, !.sessionEntries = <<entry>>]
    IN IF p1.sessionValue > p1.clsValue
       THEN LET cls == p1.sessionValue
                update == [value |-> cls,
                           rating |-> IF cls <= 100 THEN "good"
                                      ELSE IF cls <= 250 THEN "needs-improvement"
                                      ELSE "poor",
                           gtag |-> p1.gtag]
            IN [p1 EXCEPT !.clsValue = cls, !.updates = Append(@, update)]
       ELSE p1

RECURSIVE combinedClsCallback(_, _)
combinedClsCallback(p, entries) ==
  IF entries = <<>> THEN p
  ELSE combinedClsCallback(combinedClsEntry(p, Head(entries)), Tail(entries))

\* code-splitting-optimizer.js: the fields the constructor sets, before any loadModule
\* call; calls and retries hold the async functions in flight, fetched is the module
\* map of the browser and engine the wording of its import errors.
NewCodeSplittingOptimizer ==
  [loadedModules |-> {}, moduleCache |-> <<>>, calls |-> <<>>, retries |-> <<>>,
   fetched |-> {}, modulePerformance |-> <<>>, gtagEvents |-> <<>>,
   engine |-> "specifier"]

\* The namespace object import(moduleId) resolves to; init tells whether its default
\* export has a function init.
Module(moduleId) == [specifier |-> moduleId, init |-> moduleId \in ModulesWithInit]

\* trackModuleLoad: a gtag event when window.gtag is defined, and one more entry in
\* localStorage.modulePerformance, of which the last 50 are kept.
trackModuleLoad(o, gtag, moduleId) ==
  [o EXCEPT !.gtagEvents = IF gtag THEN Append(@, <<"module_load", moduleId>>) ELSE @,
            !.modulePerformance = SliceLast(Append(@, moduleId), PerformanceEntriesKept)]

\* trackModuleError
trackModuleError(o, gtag, moduleId) ==
  [o EXCEPT !.gtagEvents = IF gtag THEN Append(@, <<"module_error", moduleId>>) ELSE @]

\* The loadModule call that is about to start: caller is the code that called it,
\* retry the retryFailedModule invocation that awaits it (0 for none), afterLoaded
\* whether an earlier loadModule of the same id had returned by then.
NewCall(o, moduleId, caller, retry) ==
  [moduleId |-> moduleId, caller |-> caller, retry |-> retry, pc |-> "called",
   afterLoaded |-> \E k \in 1..Len(o.calls) :
                     o.calls[k].moduleId = moduleId /\ o.calls[k].pc = "returned",
   imported |-> FALSE, inited |-> FALSE, result |-> NoModule, error |-> NoError,
   reported |-> FALSE]

\* this.moduleCache.get(moduleId)
moduleCacheGet(o, moduleId) ==
  IF moduleId \in DOMAIN o.moduleCache THEN o.moduleCache[moduleId] ELSE NoModule

\* loadModule without the test of this.loadedModules.
loadModuleUncached(o, moduleId, caller, retry) ==
  [o EXCEPT !.calls = Append(@, [NewCall(o, moduleId, caller, retry) EXCEPT
                                   !.pc = "importing", !.imported = TRUE])]

\* loadModule up to its first await: a cached module is returned at once, otherwise
\* import(moduleId) is called and the function waits for it.
loadModule(o, moduleId, caller, retry) ==
  IF moduleId \in o.loadedModules
  THEN [o EXCEPT !.calls = Append(@, [NewCall(o, moduleId, caller, retry) EXCEPT
                                        !.pc = "returned",
                                        !.result = moduleCacheGet(o, moduleId)])]
  ELSE [o EXCEPT !.calls = Append(@, [NewCall(o, moduleId, caller, retry) EXCEPT
                                        !.pc = "importing", !.imported = TRUE])]

\* retryFailedModule with a for loop that never tests i < maxRetries.
retryLoopUnbounded(r) ==
  [r EXCEPT !.pc = "waiting", !.waits = Append(@, RetryDelay * (r.i + 1))]

\* retryFailedModule: the head of its for loop, which sets the timer of the next
\* attempt or leaves the loop after maxRetries attempts.
retryLoop(r) ==
  IF r.i < r.maxRetries
  THEN [r EXCEPT !.pc = "waiting", !.waits = Append(@, RetryDelay * (r.i + 1))]
  ELSE [r EXCEPT !.pc = "exhausted"]

\* loadModule returns module to whoever awaits call k; a retryFailedModule that awaits
\* it returns the module too.
returns(o, k, module) ==
  LET r == o.calls[k].retry
      o1 == [o EXCEPT !.calls[k].pc = "returned", !.calls[k].result = module]
  IN IF r = 0 THEN o1
     ELSE [o1 EXCEPT !.retries[r].pc = "returned", !.retries[r].result = module]

\* The catch block of loadModule: trackModuleError, then the error is thrown again; a
\* retryFailedModule that awaits call k catches it and goes round its loop.
throws(o, gtag, k, error) ==
  LET r == o.calls[k].retry
      o1 == trackModuleError([o EXCEPT !.calls[k].pc = "threw", !.calls[k].error = error],
                             gtag, o.calls[k].moduleId)
  IN IF r = 0 THEN o1
     ELSE [o1 EXCEPT !.retries[r] = retryLoop([@ EXCEPT !.i = @ + 1])]

\* loadModule after await import(moduleId) resolved: the module is recorded and, when
\* it has one, default.init(options) is called and awaited.
importResolved(o, gtag, k) ==
  LET moduleId == o.calls[k].moduleId
      module == Module(moduleId)
      o1 == trackModuleLoad([o EXCEPT !.fetched = @ \cup {moduleId},
                                      !.loadedModules = @ \cup {moduleId},
                                      !.moduleCache = (moduleId :> module) @@ @],
                            gtag, moduleId)
  IN IF module.init
     THEN [o1 EXCEPT !.calls[k].pc = "initializing", !.calls[k].inited = TRUE]
     ELSE returns(o1, k, module)

\* error.message.match(/Failed to fetch dynamically imported module: (.+)/); a
\* message is the sequence of its parts.
extractModuleIdFromError(error) ==
  IF /\ Len(error.message) = 3
     /\ error.message[1] = FailedToFetch
     /\ error.message[2] = ": "
  THEN error.message[3]
  ELSE "null"

NewRetry(moduleId, maxRetries) ==
  [moduleId |-> moduleId, maxRetries |-> maxRetries, pc |-> "started", i |-> 0,
   waits |-> <<>>, attempts |-> <<>>, result |-> NoModule]

\* retryFailedModule up to its first await.
retryFailedModule(o, error, maxRetries) ==
  LET moduleId == extractModuleIdFromError(error)
  IN IF moduleId = "null"
     THEN [o EXCEPT !.retries = Append(@, [NewRetry(moduleId, maxRetries) EXCEPT
                                             !.pc = "no-module-id"])]
     ELSE [o EXCEPT !.retries = Append(@, retryLoop(NewRetry(moduleId, maxRetries)))]

\* retryFailedModule when the timer of retry r fires: loadModule(moduleId) is called
\* and awaited; a cached module comes back without another task running in between.
retryAttempt(o, r) ==
  LET o1 == loadModule(o, o.retries[r].moduleId, "retry", r)
      k == Len(o1.calls)
      o2 == [o1 EXCEPT !.retries[r].pc = "loading",
                       !.retries[r].attempts = Append(@, k)]
  IN IF o1.calls[k].pc = "returned" THEN returns(o2, k, o1.calls[k].result) ELSE o2

\* The listener of unhandledrejection that setupModuleErrorHandling adds.
unhandledRejection(o, k) ==
  LET reason == o.calls[k].error
      o1 == [o EXCEPT !.calls[k].reported = TRUE]
  IN IF \E i \in 1..Len(reason.message) : reason.message[i] = FailedToFetch
     THEN retryFailedModule(o1, reason, DefaultMaxRetries)
     ELSE o1

\* The page before DOMContentLoaded constructs the ImageOptimizer.
NoImageOptimizer == [constructed |-> FALSE]

\* if (value) for a boolean and for an object such as a Promise.
Truthy(value) == IF value.type = "boolean" THEN value.value ELSE TRUE

\* The i flag of a regular expression, for the parts that occur in the URLs.
ToLowerCase(part) ==
  IF part = ".JPG" THEN ".jpg" ELSE IF part = ".PNG" THEN ".png" ELSE part

IsJpgJpegPng(part) == ToLowerCase(part) \in {".jpg", ".jpeg", ".png"}

\* url.replace(/\.(jpg|jpeg|png)/i, '.webp')
RECURSIVE ReplaceExtension(_)
ReplaceExtension(url) ==
  IF url = <<>> THEN <<>>
  ELSE IF IsJpgJpegPng(Head(url)) THEN <<".webp">> \o Tail(url)
  ELSE <<Head(url)>> \o ReplaceExtension(Tail(url))

\* srcset.replace(/\.(jpg|jpeg|png)/gi, '.webp')
RECURSIVE ReplaceExtensions(_)
ReplaceExtensions(srcset) ==
  IF srcset = <<>> THEN <<>>
  ELSE <<IF IsJpgJpegPng(Head(srcset)) THEN ".webp" ELSE Head(srcset)>>
         \o ReplaceExtensions(Tail(srcset))

\* src.replace('.webp', '.jpg'): the first occurrence only
RECURSIVE ReplaceWebP(_)
ReplaceWebP(url) ==
  IF url = <<>> THEN <<>>
  ELSE IF Head(url) = ".webp" THEN <<".jpg">> \o Tail(url)
  ELSE <<Head(url)>> \o ReplaceWebP(Tail(url))

\* checkWebPSupport(): a Promise that the load or error event of a 2x2 WebP image
\* resolves later.
checkWebPSupport == [type |-> "promise", state |-> "pending", value |-> FALSE]

getOptimizedImageUrl(o, src) ==
  IF ~Truthy(o.webpSupported) \/ ~o.options.webpSupport THEN src
  ELSE IF Includes(src, <<".webp">>) THEN src
  ELSE IF Includes(src, <<"cloudinary.com">>) THEN ReplaceExtension(src)
  ELSE IF Includes(src, <<"imagekit.io">>)
    THEN src \o <<IF Includes(src, <<"?">>) THEN "&" ELSE "?", "tr=f-webp">>
  ELSE ReplaceExtension(src)

getOptimizedSrcset(o, srcset) ==
  IF ~Truthy(o.webpSupported) \/ ~o.options.webpSupport THEN srcset
  ELSE ReplaceExtensions(srcset)

\* What the WebP check had yielded when a conversion was asked for.
Yielded(o) ==
  IF o.webpSupported.state = "pending" THEN "pending"
  ELSE IF o.webpSupported.value THEN "supported" ELSE "not supported"

\* A call of getOptimizedImageUrl or getOptimizedSrcset, kept in o.conversions.
Converted(o, fn, argument, result) ==
  [o EXCEPT !.conversions =
     Append(@, [fn |-> fn, argument |-> argument, result |-> result,
                check |-> Yielded(o)])]

\* optimizeExistingImages: an img without data-src whose optimized URL differs gets a
\* test image that loads the optimized URL.
optimizeExistingImages(o) ==
  IF o.img.dataSrc # NoUrl \/ o.img.src = NoUrl THEN o
  ELSE LET optimizedSrc == getOptimizedImageUrl(o, o.img.src)
           o1 == Converted(o, "getOptimizedImageUrl", o.img.src, optimizedSrc)
       IN IF optimizedSrc # o.img.src THEN [o1 EXCEPT !.img.testImg = optimizedSrc]
          ELSE o1

\* new ImageOptimizer(options) in a browser that decodes WebP or does not.
NewImageOptimizer(imageOptions, webp, img) ==
  optimizeExistingImages(
    [constructed |-> TRUE, options |-> imageOptions, webp |-> webp,
     webpSupported |-> checkWebPSupport, img |-> img, conversions |-> <<>>,
     preloads |-> <<>>])

\* loadImage(img)
loadImage(o) ==
  IF o.img.dataSrc = NoUrl THEN o
  ELSE LET optimizedSrc == getOptimizedImageUrl(o, o.img.dataSrc)
       IN [Converted(o, "getOptimizedImageUrl", o.img.dataSrc, optimizedSrc)
             EXCEPT !.img.imageLoader = optimizedSrc]

\* imageLoader.onload of loadImage
imageLoaderOnload(o) ==
  LET o1 == [o EXCEPT !.img.src = o.img.imageLoader, !.img.status = "loading",
                      !.img.imageLoader = NoUrl, !.img.loadedClass = TRUE,
                      !.img.dataSrc = NoUrl, !.img.dataSrcset = NoUrl]
  IN IF o.img.dataSrcset # NoUrl
     THEN LET srcset == getOptimizedSrcset(o, o.img.dataSrcset)
          IN [Converted(o1, "getOptimizedSrcset", o.img.dataSrcset, srcset)
                EXCEPT !.img.srcset = srcset]
     ELSE o1

\* The error listener of setupImageErrorHandling, for an error event of the img.
imageErrorListener(o) ==
  IF Includes(o.img.src, <<".webp">>)
  THEN [o EXCEPT !.img.src = ReplaceWebP(@), !.img.status = "loading",
                 !.img.reassigned = @ + 1]
  ELSE IF o.options.fallbackImage # NoUrl
  THEN [o EXCEPT !.img.errorClass = TRUE, !.img.src = o.options.fallbackImage,
                 !.img.status = "loading", !.img.reassigned = @ + 1]
  ELSE [o EXCEPT !.img.errorClass = TRUE, !.img.status = "error"]

\* preloadCriticalImages(imageSrcs)
RECURSIVE preloadCriticalImages(_, _)
preloadCriticalImages(o, imageSrcs) ==
  IF imageSrcs = <<>> THEN o
  ELSE LET href == getOptimizedImageUrl(o, Head(imageSrcs))
       IN preloadCriticalImages(
            [Converted(o, "getOptimizedImageUrl", Head(imageSrcs), href)
               EXCEPT !.preloads = Append(@, href)],
            Tail(imageSrcs))

\* The page before DOMContentLoaded constructs the CriticalCSSOptimizer.
NoCriticalCSSOptimizer == [constructed |-> FALSE]

\* href.toLowerCase(), for the parts that occur in the hrefs.
HrefToLowerCase(href) ==
  [k \in 1..Len(href) |-> IF href[k] = "Above-Fold" THEN "above-fold" ELSE href[k]]

isCriticalStylesheet(link) ==
  \E pattern \in {"critical", "above-fold", "inline", "fonts"} :
    Includes(HrefToLowerCase(link.href), <<pattern>>)

\* const loadStylesheet of deferStylesheet
loadStylesheet(link) == [link EXCEPT !.media = "all", !.deferred = FALSE]

\* deferStylesheet without the setTimeout(loadStylesheet, 3000).
deferStylesheetWithoutFallback(link, readyState) ==
  [link EXCEPT !.media = "print", !.deferred = TRUE, !.everDeferred = TRUE,
               !.timers = IF readyState = "complete" THEN @ \cup {0} ELSE @,
               !.loadListener = IF readyState = "complete" THEN @ ELSE TRUE]

deferStylesheet(link, readyState) ==
  [link EXCEPT !.media = "print", !.deferred = TRUE, !.everDeferred = TRUE,
               !.timers = IF readyState = "complete"
                          THEN @ \cup {0, FallbackDelay} ELSE @ \cup {FallbackDelay},
               !.loadListener = IF readyState = "complete" THEN @ ELSE TRUE]

deferNonCriticalCSS(links, readyState) ==
  [l \in 1..Len(links) |->
     IF ~isCriticalStylesheet(links[l]) THEN deferStylesheet(links[l], readyState)
     ELSE links[l]]

\* loadGoogleFontsAsync, for link[href*="fonts.googleapis.com"]
loadGoogleFontsAsync(links) ==
  [l \in 1..Len(links) |->
     IF Includes(links[l].href, <<"fonts", ".googleapis.com">>)
     THEN [links[l] EXCEPT !.media = "print", !.onload = TRUE]
     ELSE links[l]]

\* loadAllDeferredStyles, for link[data-deferred="true"]
loadAllDeferredStyles(links) ==
  [l \in 1..Len(links) |->
     IF links[l].deferred THEN [links[l] EXCEPT !.media = "all", !.deferred = FALSE]
     ELSE links[l]]

\* run(), as far as it touches the stylesheet links: deferNonCriticalCSS, then
\* optimizeFontLoading, then setupLazyStyleLoading, which without IntersectionObserver
\* in window falls back to loadAllDeferredStyles.
run(cssOptions, readyState, intersectionObserver, links) ==
  LET links1 == IF cssOptions.deferNonCritical THEN deferNonCriticalCSS(links, readyState)
                ELSE links
      links2 == IF cssOptions.loadFontsAsync THEN loadGoogleFontsAsync(links1) ELSE links1
      links3 == IF cssOptions.useIntersectionObserver /\ ~intersectionObserver
                THEN loadAllDeferredStyles(links2) ELSE links2
  IN [constructed |-> TRUE, options |-> cssOptions, readyState |-> readyState,
      intersectionObserver |-> intersectionObserver, links |-> links3,
      fontsLoaded |-> FALSE]

trackCustomMetric(m, name, value, unit) ==
  reportMetric([m EXCEPT !.customMetrics = (name :> [value |-> value, unit |-> unit]) @@ @],
               name, [value |-> value, unit |-> unit])

\* Mutation of trackCustomTiming: the timing is handed to reportMetric as well.
trackCustomTimingBuffered(m, type, name, data) ==
  LET customTiming == [type |-> type, name |-> name, data |-> data]
  IN reportMetric([m EXCEPT !.userTimings = Append(@, customTiming)], name, customTiming)

trackCustomTiming(m, type, name, data) ==
  LET customTiming == [type |-> type, name |-> name, data |-> data]
  IN [m EXCEPT !.userTimings = Append(@, customTiming)]

trackError(m, errorData) == reportMetric(m, "error", errorData)

-----------------------------------------------------------------------------
(* Initial state: the monitor right after its constructor returned *)

MonitorConstructed ==
  /\ buffer = <<>>
  /\ coreWebVitals = <<>>
  /\ customMetrics = <<>>
  /\ clsValue = 0
  /\ sessionValue = 0
  /\ sessionEntries = <<>>
  /\ interactions = <<>>
  /\ interactionLog = <<>>
  /\ firstInputLog = <<>>
  /\ resourceTimings = <<>>
  /\ userTimings = <<>>
  /\ analyses = <<>>
  /\ reportTimer = TRUE
  /\ observer = TRUE
  /\ sent = <<>>
  /\ recorded = 0
  /\ destroyed = FALSE
  /\ handler = "constructor"
  /\ shiftClock = 0
  /\ shiftsSeen = 0
  /\ lastShift = NoShift
  /\ lcpEntries = <<>>
  /\ settled = {}
  /\ performanceObserver = TRUE
  /\ options = DefaultOptions
  /\ phase = "ready"

Constructed ==
  /\ MonitorConstructed
  /\ pagespeed = CombinedScript
  /\ codeSplittingOptimizer = NewCodeSplittingOptimizer
  /\ imageOptimizer = NoImageOptimizer
  /\ criticalCSSOptimizer = NoCriticalCSSOptimizer

Init ==
  /\ bufferSize \in 1..MaxBufferSize
  /\ sendBeacon \in BOOLEAN
  /\ Constructed

InitCLS ==
  /\ bufferSize = DefaultBufferSize
  /\ sendBeacon = TRUE
  /\ Constructed

\* The page once new CodeSplittingOptimizer(options) has returned, in a browser with
\* one of the wordings of import errors, with or without gtag.
InitSplit ==
  /\ bufferSize = DefaultBufferSize
  /\ sendBeacon = TRUE
  /\ MonitorConstructed
  /\ pagespeed \in {[CombinedScript EXCEPT !.gtag = gtag] : gtag \in BOOLEAN}
  /\ codeSplittingOptimizer \in
       {[NewCodeSplittingOptimizer EXCEPT !.engine = engine] : engine \in Engines}
  /\ imageOptimizer = NoImageOptimizer
  /\ criticalCSSOptimizer = NoCriticalCSSOptimizer

\* The page before new PerformanceMonitor(options) runs, in a browser that may lack
\* PerformanceObserver or navigator.sendBeacon.
InitBoot ==
  /\ bufferSize = DefaultBufferSize
  /\ sendBeacon \in BOOLEAN
  /\ performanceObserver \in BOOLEAN
  /\ options \in [enableCoreWebVitals : BOOLEAN, enableResourceTiming : BOOLEAN]
  /\ phase = "unconstructed"
  /\ buffer = <<>>
  /\ coreWebVitals = <<>>
  /\ customMetrics = <<>>
  /\ clsValue = 0
  /\ sessionValue = 0
  /\ sessionEntries = <<>>
  /\ interactions = <<>>
  /\ interactionLog = <<>>
  /\ firstInputLog = <<>>
  /\ resourceTimings = <<>>
  /\ userTimings = <<>>
  /\ analyses = <<>>
  /\ reportTimer = FALSE
  /\ observer = FALSE
  /\ sent = <<>>
  /\ recorded = 0
  /\ destroyed = FALSE
  /\ handler = "none"
  /\ shiftClock = 0
  /\ shiftsSeen = 0
  /\ lastShift = NoShift
  /\ lcpEntries = <<>>
  /\ settled = {}
  /\ pagespeed = CombinedScript
  /\ codeSplittingOptimizer = NewCodeSplittingOptimizer
  /\ imageOptimizer = NoImageOptimizer
  /\ criticalCSSOptimizer = NoCriticalCSSOptimizer

-----------------------------------------------------------------------------
(* Actions: one per callback, listener or public method *)

\* The state of the other scripts of the page.
Scripts == <<pagespeed, codeSplittingOptimizer, imageOptimizer, criticalCSSOptimizer>>

\* What no callback, listener or method of the monitor changes.
Environment ==
  <<bufferSize, sendBeacon, settled, performanceObserver, options, phase, Scripts>>

\* The fields of the monitor and the closures of its observers.
Monitor ==
  <<buffer, coreWebVitals, customMetrics, clsValue, sessionValue, sessionEntries, sent,
    recorded, lastShift, interactions, interactionLog, firstInputLog, resourceTimings,
    userTimings, analyses>>

\* The fetch calls whose promise has not settled yet.
Pending ==
  {i \in 1..Len(sent) : sent[i].via = "fetch" /\ <<i, "rejected">> \notin settled}

Delivered == <<shiftClock, shiftsSeen, lcpEntries>>

\* The monitor, its timers and what the browser has delivered to it.
MonitorPage ==
  <<bufferSize, sendBeacon, settled, performanceObserver, options, phase, Monitor,
    reportTimer, observer, destroyed, Delivered>>

\* The browser delivers a batch of largest-contentful-paint entries.
LCPDeliver(batches) ==
  /\ recorded < MaxSamples
  /\ \E entries \in batches :
       /\ Becomes(lcpCallback(Self, entries))
       /\ lcpEntries' = entries
  /\ handler' = "lcp"
  /\ UNCHANGED <<Environment, reportTimer, observer, destroyed, shiftClock, shiftsSeen>>

LCPNotify == LCPDeliver(Batches([startTime : LCPTimes], MaxBatch))

\* A page that reports one candidate per notification, always at the same time.
LCPNotifySingle == LCPDeliver({<<[startTime |-> t]>> : t \in {Min(LCPTimes)}})

\* The entries the browser delivers: startTime never decreases.
RECURSIVE Stamp(_, _)
Stamp(clock, shifts) ==
  IF shifts = <<>> THEN <<>>
  ELSE LET s == Head(shifts)
           entry == [startTime |-> clock + s.gap, value |-> s.value,
                     hadRecentInput |-> s.hadRecentInput]
       IN <<entry>> \o Stamp(entry.startTime, Tail(shifts))

\* The browser delivers a batch of layout-shift entries.
LayoutShift(limit, flags) ==
  \E shifts \in Batches([gap : ShiftGaps, value : ShiftValues, hadRecentInput : flags],
                        MaxBatch) :
    /\ shiftsSeen + Len(shifts) <= limit
    /\ LET entries == Stamp(shiftClock, shifts)
       IN /\ Becomes(clsCallback(Self, entries))
          /\ shiftClock' = Last(entries).startTime
    /\ shiftsSeen' = shiftsSeen + Len(shifts)
    /\ handler' = "cls"
    /\ UNCHANGED <<Environment, reportTimer, observer, destroyed, lcpEntries>>

CLSNotify == LayoutShift(MaxShifts, {FALSE})

\* A page where some of the shifts follow user input.
CLSInputNotify == LayoutShift(MaxFlaggedShifts, BOOLEAN)

\* The browser delivers a batch of event entries to the observer of measureINP.
INPDeliver(entrySet, limit) ==
  \E entries \in Batches(entrySet, MaxBatch) :
    /\ Len(interactionLog) + Len(entries) <= limit
    /\ Becomes(inpCallback(Self, entries))
    /\ handler' = "inp"
    /\ UNCHANGED <<Environment, reportTimer, observer, destroyed, Delivered>>

INPNotify == INPDeliver(InteractionEntries, MaxInteractions)

\* The browser delivers a batch of first-input entries.
FIDNotify ==
  \E entries \in Batches(FirstInputEntries, MaxBatch) :
    /\ recorded + Len(entries) <= MaxVitals
    /\ Becomes(fidCallback(Self, entries))
    /\ handler' = "fid"
    /\ UNCHANGED <<Environment, reportTimer, observer, destroyed, Delivered>>

\* The browser delivers a batch of paint entries.
FCPNotify ==
  \E entries \in Batches(PaintEntries, MaxBatch) :
    /\ recorded < MaxVitals
    /\ Becomes(fcpCallback(Self, entries))
    /\ handler' = "fcp"
    /\ UNCHANGED <<Environment, reportTimer, observer, destroyed, Delivered>>

\* The browser delivers a batch of navigation entries.
TTINotify ==
  \E entries \in Batches(NavigationEntries, MaxBatch) :
    /\ recorded < MaxVitals
    /\ Becomes(ttiCallback(Self, entries))
    /\ handler' = "tti"
    /\ UNCHANGED <<Environment, reportTimer, observer, destroyed, Delivered>>

\* One largest-contentful-paint candidate per notification, around the rating bands.
LCPRatedNotify ==
  /\ recorded < MaxVitals
  /\ LCPDeliver({<<[startTime |-> t]>> : t \in LCPBoundaryTimes})

\* Interactions with durations around the rating bands.
INPRatedNotify ==
  /\ recorded < MaxVitals
  /\ INPDeliver(RatedInteractionEntries, MaxVitals)

\* The browser delivers a batch of resource entries to the observer of
\* setupResourceTimingMonitoring.
ResourceNotify ==
  \E n \in 1..MaxBatch :
    /\ Len(analyses) + Len(resourceTimings) + n <= MaxResources
    /\ \E entries \in [1..n -> ResourceEntries] :
         Becomes(resourceCallback(Self, entries))
    /\ handler' = "resource"
    /\ UNCHANGED <<Environment, reportTimer, observer, destroyed, Delivered>>

\* The browser delivers a batch of resource entries to this.observer.
ObserverResourceNotify ==
  \E n \in 1..MaxBatch :
    /\ observer
    /\ Len(analyses) + Len(resourceTimings) + n <= MaxResources
    /\ \E entries \in [1..n -> ResourceEntries] :
         Becomes(observerCallback(Self, entries))
    /\ handler' = "observer"
    /\ UNCHANGED <<Environment, reportTimer, observer, destroyed, Delivered>>

\* The browser delivers the same batch of layout-shift entries to the observer of
\* measureCLS and to the one of pagespeed-optimizer.js.
LayoutShiftBoth ==
  \E n \in 1..MaxBatch :
    /\ shiftsSeen + n <= MaxFlaggedShifts
    /\ \E shifts \in [1..n -> [gap : ShiftGaps, value : ShiftValues,
                                hadRecentInput : BOOLEAN]] :
         LET entries == Stamp(shiftClock, shifts)
         IN /\ Becomes(clsCallback(Self, entries))
            /\ pagespeed' = combinedClsCallback(pagespeed, entries)
            /\ shiftClock' = Last(entries).startTime
    /\ shiftsSeen' = shiftsSeen + n
    /\ handler' = "cls"
    /\ UNCHANGED <<bufferSize, sendBeacon, settled, performanceObserver, options, phase,
                   reportTimer, observer, destroyed, lcpEntries, codeSplittingOptimizer,
                   imageOptimizer, criticalCSSOptimizer>>

\* The analytics script of the page finishes loading and defines gtag.
GtagLoads ==
  /\ ~pagespeed.gtag
  /\ pagespeed' = [pagespeed EXCEPT !.gtag = TRUE]
  /\ handler' = "gtag"
  /\ UNCHANGED <<MonitorPage, codeSplittingOptimizer, imageOptimizer,
                 criticalCSSOptimizer>>

\* Application code calls trackCustomMetric(name, value).
TrackCustomMetric ==
  /\ recorded < MaxSamples
  /\ \E name \in CustomNames, value \in CustomValues :
       Becomes(trackCustomMetric(Self, name, value, ""))
  /\ handler' = "trackCustomMetric"
  /\ UNCHANGED <<Environment, reportTimer, observer, destroyed, Delivered>>

\* Application code (or the wrapped performance.mark and performance.measure) calls
\* trackCustomTiming(type, name, data).
TrackCustomTiming ==
  /\ Len(userTimings) < MaxTimings
  /\ \E type \in CustomTimingTypes, name \in CustomNames, data \in CustomTimingData :
       Becomes(trackCustomTiming(Self, type, name, data))
  /\ handler' = "trackCustomTiming"
  /\ UNCHANGED <<Environment, reportTimer, observer, destroyed, Delivered>>

\* The window 'error' listener of setupErrorTracking.
ErrorEvent ==
  /\ recorded < MaxSamples
  /\ Becomes(trackError(Self, [type |-> "javascript", message |-> "boom"]))
  /\ handler' = "error"
  /\ UNCHANGED <<Environment, reportTimer, observer, destroyed, Delivered>>

\* Mutation of ReportTimerTick: the tick flushes only a full buffer.
ReportTimerTickWhenFull ==
  /\ reportTimer
  /\ Becomes(IF Len(buffer) >= bufferSize THEN sendReport(Self, FALSE, "timer") ELSE Self)
  /\ handler' = "timer"
  /\ UNCHANGED <<Environment, reportTimer, observer, destroyed, Delivered>>

\* The setInterval callback of setupReporting.
ReportTimerTick ==
  /\ reportTimer
  /\ Becomes(sendReport(Self, FALSE, "timer"))
  /\ handler' = "timer"
  /\ UNCHANGED <<Environment, reportTimer, observer, destroyed, Delivered>>

\* The 'beforeunload' listener of setupReporting.
BeforeUnload ==
  /\ Becomes(sendReport(Self, TRUE, "beforeunload"))
  /\ handler' = "beforeunload"
  /\ UNCHANGED <<Environment, reportTimer, observer, destroyed, Delivered>>

\* Mutation of Destroy: the final report is not sent.
DestroyNoReport ==
  /\ observer' = FALSE
  /\ reportTimer' = FALSE
  /\ Becomes(Self)
  /\ destroyed' = TRUE
  /\ handler' = "destroy"
  /\ UNCHANGED <<Environment, Delivered>>

\* destroy()
Destroy ==
  /\ observer' = FALSE
  /\ reportTimer' = FALSE
  /\ Becomes(sendReport(Self, TRUE, "destroy"))
  /\ destroyed' = TRUE
  /\ handler' = "destroy"
  /\ UNCHANGED <<Environment, Delivered>>

\* Mutation of FetchRejects: the catch handler puts the samples back into the buffer.
FetchRejectsRequeues ==
  /\ \E i \in Pending :
       /\ settled' = settled \cup {<<i, "rejected">>}
       /\ buffer' = sent[i].report.metrics \o buffer
  /\ handler' = "fetch.catch"
  /\ UNCHANGED <<bufferSize, sendBeacon, coreWebVitals, customMetrics, clsValue,
                 sessionValue, sessionEntries, sent, recorded, lastShift, interactions,
                 interactionLog, firstInputLog, resourceTimings, userTimings, analyses,
                 reportTimer, observer, destroyed, Delivered, performanceObserver,
                 options, phase, Scripts>>

\* The promise of a fetch call rejects and the handler passed to catch runs; with
\* debugMode off it does nothing.
FetchRejects ==
  /\ \E i \in Pending : settled' = settled \cup {<<i, "rejected">>}
  /\ handler' = "fetch.catch"
  /\ UNCHANGED <<bufferSize, sendBeacon, Monitor, reportTimer, observer, destroyed,
                 Delivered, performanceObserver, options, phase, Scripts>>

\* measureTTI and setupResourceTimingMonitoring evaluate new PerformanceObserver(...)
\* without testing that window has it; the other measure methods and
\* setupPerformanceObserver return early when it is absent.
measureTTIThrows == ~performanceObserver

setupResourceTimingMonitoringThrows == ~performanceObserver

\* init(): whether one of its steps throws, in the order init() takes them.
initThrows ==
  \/ options.enableCoreWebVitals /\ measureTTIThrows
  \/ options.enableResourceTiming /\ setupResourceTimingMonitoringThrows

\* new PerformanceMonitor(options): the constructor runs init(); an exception in
\* init() leaves the constructor before setupPerformanceObserver and setupReporting.
Construct ==
  /\ phase = "unconstructed"
  /\ IF initThrows
     THEN /\ phase' = "threw"
          /\ UNCHANGED <<observer, reportTimer>>
     ELSE /\ phase' = "ready"
          /\ observer' = performanceObserver
          /\ reportTimer' = TRUE
  /\ handler' = "constructor"
  /\ UNCHANGED <<bufferSize, sendBeacon, settled, performanceObserver, options, Monitor,
                 destroyed, Delivered, Scripts>>

\* The loadModule calls that a callback or listener made, retries aside.
DirectCalls ==
  {k \in 1..Len(codeSplittingOptimizer.calls) : codeSplittingOptimizer.calls[k].retry = 0}

\* entries.forEach of the IntersectionObserver callback: one loadModule per element.
RECURSIVE loadModules(_, _, _)
loadModules(o, moduleIds, caller) ==
  IF moduleIds = <<>> THEN o
  ELSE loadModules(loadModule(o, Head(moduleIds), caller, 0), Tail(moduleIds), caller)

\* The IntersectionObserver of setupIntersectionObserver reports elements with a
\* data-module attribute as intersecting; the promises of loadModule are dropped.
IntersectionNotifyUpTo(limit) ==
  \E n \in 1..MaxBatch :
    /\ Cardinality(DirectCalls) + n <= limit
    /\ \E moduleIds \in [1..n -> ModuleIds] :
         codeSplittingOptimizer' =
           loadModules(codeSplittingOptimizer, moduleIds, "observer")
    /\ handler' = "intersection"
    /\ UNCHANGED <<MonitorPage, pagespeed, imageOptimizer, criticalCSSOptimizer>>

IntersectionNotify == IntersectionNotifyUpTo(MaxCalls)

RetryIntersectionNotify == IntersectionNotifyUpTo(MaxRetries)

\* A click on a [data-map] container runs loadMap, which awaits loadModule inside try.
MapClick ==
  /\ Cardinality(DirectCalls) < MaxCalls
  /\ codeSplittingOptimizer' =
       loadModule(codeSplittingOptimizer, "./modules/maps.js", "click", 0)
  /\ handler' = "click"
  /\ UNCHANGED <<MonitorPage, pagespeed, imageOptimizer, criticalCSSOptimizer>>

\* The promise of import(moduleId) that call k awaits resolves.
ImportResolves ==
  \E k \in 1..Len(codeSplittingOptimizer.calls) :
    /\ codeSplittingOptimizer.calls[k].pc = "importing"
    /\ codeSplittingOptimizer' = importResolved(codeSplittingOptimizer, pagespeed.gtag, k)
    /\ handler' = "import"
    /\ UNCHANGED <<MonitorPage, pagespeed, imageOptimizer, criticalCSSOptimizer>>

\* The promise of import(moduleId) that call k awaits rejects; a module the browser has
\* evaluated stays in its module map, so its import cannot reject any more.
ImportRejects ==
  \E k \in 1..Len(codeSplittingOptimizer.calls) :
    /\ codeSplittingOptimizer.calls[k].pc = "importing"
    /\ codeSplittingOptimizer.calls[k].moduleId \notin codeSplittingOptimizer.fetched
    /\ codeSplittingOptimizer' =
         throws(codeSplittingOptimizer, pagespeed.gtag, k,
                ImportError(codeSplittingOptimizer.engine,
                            codeSplittingOptimizer.calls[k].moduleId))
    /\ handler' = "import"
    /\ UNCHANGED <<MonitorPage, pagespeed, imageOptimizer, criticalCSSOptimizer>>

\* The promise of module.default.init(options) that call k awaits resolves.
InitResolves ==
  \E k \in 1..Len(codeSplittingOptimizer.calls) :
    /\ codeSplittingOptimizer.calls[k].pc = "initializing"
    /\ codeSplittingOptimizer' =
         returns(codeSplittingOptimizer, k, Module(codeSplittingOptimizer.calls[k].moduleId))
    /\ handler' = "init"
    /\ UNCHANGED <<MonitorPage, pagespeed, imageOptimizer, criticalCSSOptimizer>>

\* The promise of module.default.init(options) that call k awaits rejects.
InitRejects ==
  \E k \in 1..Len(codeSplittingOptimizer.calls) :
    /\ codeSplittingOptimizer.calls[k].pc = "initializing"
    /\ codeSplittingOptimizer' =
         throws(codeSplittingOptimizer, pagespeed.gtag, k, InitError)
    /\ handler' = "init"
    /\ UNCHANGED <<MonitorPage, pagespeed, imageOptimizer, criticalCSSOptimizer>>

\* The rejection of a loadModule promise that the observer callback dropped reaches
\* the unhandledrejection listener.
UnhandledRejection ==
  \E k \in 1..Len(codeSplittingOptimizer.calls) :
    /\ codeSplittingOptimizer.calls[k].pc = "threw"
    /\ codeSplittingOptimizer.calls[k].caller = "observer"
    /\ ~codeSplittingOptimizer.calls[k].reported
    /\ codeSplittingOptimizer' = unhandledRejection(codeSplittingOptimizer, k)
    /\ handler' = "unhandledrejection"
    /\ UNCHANGED <<MonitorPage, pagespeed, imageOptimizer, criticalCSSOptimizer>>

\* The setTimeout of retryFailedModule fires.
RetryTimerFires ==
  \E r \in 1..Len(codeSplittingOptimizer.retries) :
    /\ codeSplittingOptimizer.retries[r].pc = "waiting"
    /\ codeSplittingOptimizer' = retryAttempt(codeSplittingOptimizer, r)
    /\ handler' = "retry"
    /\ UNCHANGED <<MonitorPage, pagespeed, imageOptimizer, criticalCSSOptimizer>>

\* DOMContentLoaded: the page constructs its ImageOptimizer.
ImageOptimizerConstructed ==
  /\ ~imageOptimizer.constructed
  /\ \E imageOptions \in ImageOptions, webp \in BOOLEAN, img \in DocumentImages :
       imageOptimizer' = NewImageOptimizer(imageOptions, webp, img)
  /\ handler' = "DOMContentLoaded"
  /\ UNCHANGED <<MonitorPage, pagespeed, codeSplittingOptimizer, criticalCSSOptimizer>>

\* The page preloads its two critical images, as the initializer of the file does.
PreloadCriticalImages ==
  /\ imageOptimizer.constructed
  /\ imageOptimizer.preloads = <<>>
  /\ imageOptimizer' =
       preloadCriticalImages(imageOptimizer,
                             <<<<"/assets/images/hero-banner", ".jpg">>,
                               <<"/assets/images/logo", ".png">>>>)
  /\ handler' = "DOMContentLoaded"
  /\ UNCHANGED <<MonitorPage, pagespeed, codeSplittingOptimizer, criticalCSSOptimizer>>

\* The 2x2 WebP image of checkWebPSupport loads or fails, and the promise resolves
\* with webp.height === 2.
WebPCheckSettles ==
  /\ imageOptimizer.constructed
  /\ imageOptimizer.webpSupported.state = "pending"
  /\ imageOptimizer' = [imageOptimizer EXCEPT !.webpSupported.state = "fulfilled",
                                              !.webpSupported.value = imageOptimizer.webp]
  /\ handler' = "webp"
  /\ UNCHANGED <<MonitorPage, pagespeed, codeSplittingOptimizer, criticalCSSOptimizer>>

\* The IntersectionObserver of setupLazyLoading reports the lazy img as intersecting.
ImageIntersects ==
  /\ imageOptimizer.constructed
  /\ imageOptimizer.img.observed
  /\ imageOptimizer' = [loadImage(imageOptimizer) EXCEPT !.img.observed = FALSE]
  /\ handler' = "intersection"
  /\ UNCHANGED <<MonitorPage, pagespeed, codeSplittingOptimizer, criticalCSSOptimizer>>

ImageLoaderLoads ==
  /\ imageOptimizer.constructed
  /\ imageOptimizer.img.imageLoader # NoUrl
  /\ imageOptimizer' = imageLoaderOnload(imageOptimizer)
  /\ handler' = "load"
  /\ UNCHANGED <<MonitorPage, pagespeed, codeSplittingOptimizer, criticalCSSOptimizer>>

\* imageLoader.onerror of loadImage
ImageLoaderFails ==
  /\ imageOptimizer.constructed
  /\ imageOptimizer.img.imageLoader # NoUrl
  /\ imageOptimizer' = [imageOptimizer EXCEPT !.img.imageLoader = NoUrl,
                                              !.img.errorClass = TRUE]
  /\ handler' = "error"
  /\ UNCHANGED <<MonitorPage, pagespeed, codeSplittingOptimizer, criticalCSSOptimizer>>

\* testImg.onload of optimizeExistingImages
TestImageLoads ==
  /\ imageOptimizer.constructed
  /\ imageOptimizer.img.testImg # NoUrl
  /\ imageOptimizer' = [imageOptimizer EXCEPT !.img.src = imageOptimizer.img.testImg,
                                              !.img.status = "loading",
                                              !.img.testImg = NoUrl]
  /\ handler' = "load"
  /\ UNCHANGED <<MonitorPage, pagespeed, codeSplittingOptimizer, criticalCSSOptimizer>>

\* The test image fails; it has no onerror and is not in the document.
TestImageFails ==
  /\ imageOptimizer.constructed
  /\ imageOptimizer.img.testImg # NoUrl
  /\ imageOptimizer' = [imageOptimizer EXCEPT !.img.testImg = NoUrl]
  /\ handler' = "error"
  /\ UNCHANGED <<MonitorPage, pagespeed, codeSplittingOptimizer, criticalCSSOptimizer>>

\* The img finishes loading its src.
ImageLoads ==
  /\ imageOptimizer.constructed
  /\ imageOptimizer.img.status = "loading"
  /\ imageOptimizer' = [imageOptimizer EXCEPT !.img.status = "loaded"]
  /\ handler' = "load"
  /\ UNCHANGED <<MonitorPage, pagespeed, codeSplittingOptimizer, criticalCSSOptimizer>>

\* The img fails to load its src: the error event reaches the capturing listener on
\* document. Every assignment of img.src starts a new load, of the same URL too.
ImageError ==
  /\ imageOptimizer.constructed
  /\ imageOptimizer.img.status = "loading"
  /\ imageOptimizer.img.reassigned < MaxReassignments
  /\ imageOptimizer' = imageErrorListener(imageOptimizer)
  /\ handler' = "error"
  /\ UNCHANGED <<MonitorPage, pagespeed, codeSplittingOptimizer, criticalCSSOptimizer>>

\* new CriticalCSSOptimizer(options) and its run(), on a document that is interactive
\* or complete, in a browser with or without IntersectionObserver.
CriticalCSSRun ==
  /\ ~criticalCSSOptimizer.constructed
  /\ \E n \in 1..MaxLinks :
       \E hrefs \in [1..n -> LinkHrefs], cssOptions \in CssOptions,
          readyState \in {"interactive", "complete"}, intersectionObserver \in BOOLEAN :
         criticalCSSOptimizer' =
           run(cssOptions, readyState, intersectionObserver,
               [l \in 1..n |-> NewLink(hrefs[l])])
  /\ handler' = "DOMContentLoaded"
  /\ UNCHANGED <<MonitorPage, pagespeed, codeSplittingOptimizer, imageOptimizer>>

\* The load event of window: the document becomes complete and every loadStylesheet
\* that listens runs.
WindowLoad ==
  /\ criticalCSSOptimizer.constructed
  /\ criticalCSSOptimizer.readyState = "interactive"
  /\ criticalCSSOptimizer' =
       [criticalCSSOptimizer EXCEPT
          !.readyState = "complete",
          !.links = [l \in 1..Len(@) |->
                       IF @[l].loadListener
                       THEN [loadStylesheet(@[l]) EXCEPT !.loadListener = FALSE]
                       ELSE @[l]]]
  /\ handler' = "load"
  /\ UNCHANGED <<MonitorPage, pagespeed, codeSplittingOptimizer, imageOptimizer>>

\* A timer of deferStylesheet fires, the one with the shortest delay first.
StylesheetTimerFires(delay) ==
  /\ criticalCSSOptimizer.constructed
  /\ \E l \in 1..Len(criticalCSSOptimizer.links) :
       /\ delay \in criticalCSSOptimizer.links[l].timers
       /\ \A other \in criticalCSSOptimizer.links[l].timers : delay <= other
       /\ criticalCSSOptimizer' =
            [criticalCSSOptimizer EXCEPT
               !.links[l] = [loadStylesheet(@) EXCEPT !.timers = @ \ {delay}]]
  /\ handler' = "timer"
  /\ UNCHANGED <<MonitorPage, pagespeed, codeSplittingOptimizer, imageOptimizer>>

ZeroTimerFires == StylesheetTimerFires(0)

FallbackTimerFires == StylesheetTimerFires(FallbackDelay)

\* link.onload of loadGoogleFontsAsync
FontLinkLoads ==
  /\ criticalCSSOptimizer.constructed
  /\ \E l \in 1..Len(criticalCSSOptimizer.links) :
       /\ criticalCSSOptimizer.links[l].onload
       /\ criticalCSSOptimizer' =
            [criticalCSSOptimizer EXCEPT !.links[l].media = "all",
                                         !.links[l].onload = FALSE,
                                         !.fontsLoaded = TRUE]
  /\ handler' = "load"
  /\ UNCHANGED <<MonitorPage, pagespeed, codeSplittingOptimizer, imageOptimizer>>

\* The methods and listeners of a monitor whose constructor returned.
ReadyTrackCustomMetric == phase = "ready" /\ TrackCustomMetric

ReadyReportTimerTick == phase = "ready" /\ ReportTimerTick

ReadyBeforeUnload == phase = "ready" /\ BeforeUnload

ReadyDestroy == phase = "ready" /\ Destroy

Next ==
  \/ LCPNotifySingle
  \/ TrackCustomMetric
  \/ ErrorEvent
  \/ ReportTimerTick
  \/ BeforeUnload
  \/ Destroy

Spec == Init /\ [][Next]_vars

\* The sample sources and the flushes, without the error listener.
NextFair ==
  \/ LCPNotifySingle
  \/ TrackCustomMetric
  \/ ReportTimerTick
  \/ BeforeUnload
  \/ Destroy

\* The timer keeps firing while it is live.
FairSpec == Init /\ [][NextFair]_vars /\ WF_vars(ReportTimerTick)

NextCLS == CLSNotify

NextLCP ==
  \/ LCPNotify
  \/ ReportTimerTick

SpecLCP == Init /\ [][NextLCP]_vars

SpecCLS == InitCLS /\ [][NextCLS]_vars

NextCLSInput == CLSInputNotify

SpecCLSInput == InitCLS /\ [][NextCLSInput]_vars

NextCLSBoth ==
  \/ LayoutShiftBoth
  \/ GtagLoads

SpecCLSBoth == InitCLS /\ [][NextCLSBoth]_vars

NextINP == INPNotify

SpecINP == InitCLS /\ [][NextINP]_vars

NextVitals ==
  \/ LCPRatedNotify
  \/ FIDNotify
  \/ INPRatedNotify
  \/ FCPNotify
  \/ TTINotify

SpecVitals == InitCLS /\ [][NextVitals]_vars

NextResource ==
  \/ ResourceNotify
  \/ ObserverResourceNotify

SpecResource == InitCLS /\ [][NextResource]_vars

NextCustom ==
  \/ TrackCustomMetric
  \/ TrackCustomTiming
  \/ ReportTimerTick

SpecCustom == Init /\ [][NextCustom]_vars

NextFail ==
  \/ TrackCustomMetric
  \/ ReportTimerTick
  \/ FetchRejects

SpecFail == Init /\ [][NextFail]_vars

NextBoot ==
  \/ Construct
  \/ ReadyTrackCustomMetric
  \/ ReadyReportTimerTick
  \/ ReadyBeforeUnload
  \/ ReadyDestroy

SpecBoot == InitBoot /\ [][NextBoot]_vars

NextSplit ==
  \/ IntersectionNotify
  \/ MapClick
  \/ ImportResolves
  \/ ImportRejects
  \/ InitResolves
  \/ InitRejects

SpecSplit == InitSplit /\ [][NextSplit]_vars

NextRetry ==
  \/ RetryIntersectionNotify
  \/ ImportResolves
  \/ ImportRejects
  \/ InitResolves
  \/ InitRejects
  \/ UnhandledRejection
  \/ RetryTimerFires

\* Timers fire and the promises loadModule awaits settle.
SpecRetry ==
  /\ InitSplit
  /\ [][NextRetry]_vars
  /\ WF_vars(RetryTimerFires)
  /\ WF_vars(ImportResolves \/ ImportRejects)
  /\ WF_vars(InitResolves \/ InitRejects)

NextImage ==
  \/ ImageOptimizerConstructed
  \/ PreloadCriticalImages
  \/ WebPCheckSettles
  \/ ImageIntersects
  \/ ImageLoaderLoads
  \/ ImageLoaderFails
  \/ TestImageLoads
  \/ TestImageFails
  \/ ImageLoads
  \/ ImageError

SpecImage == InitCLS /\ [][NextImage]_vars

NextCSS ==
  \/ CriticalCSSRun
  \/ WindowLoad
  \/ ZeroTimerFires
  \/ FallbackTimerFires
  \/ FontLinkLoads

\* The timers of deferStylesheet fire; the load event of window may never come.
SpecCSS ==
  /\ InitCLS
  /\ [][NextCSS]_vars
  /\ WF_vars(ZeroTimerFires)
  /\ WF_vars(FallbackTimerFires)

-----------------------------------------------------------------------------
(* Vocabulary of the properties *)

\* The samples handed to the transport so far, in the order they were handed over.
RECURSIVE Handed(_)
Handed(calls) ==
  IF calls = <<>> THEN <<>>
  ELSE Head(calls).report.metrics \o Handed(Tail(calls))

AllSamples == Handed(sent) \o buffer

CallsFrom(site) == {i \in 1..Len(sent) : sent[i].site = site}

IsSentSample(id) ==
  \E i \in 1..Len(sent) :
    \E j \in 1..Len(sent[i].report.metrics) : sent[i].report.metrics[j].id = id

IsBuffered(id) == \E j \in 1..Len(buffer) : buffer[j].id = id

FlushHandlers == {"timer", "beforeunload", "destroy"}

-----------------------------------------------------------------------------
(* Properties *)

\* C1: as long as every transport call so far came from reportMetric (no timer,
\* beforeunload or destroy flush has intervened), n calls of reportMetric on the
\* initially empty buffer have caused n \div bufferSize automatic flushes and left
\* n % bufferSize samples buffered: exactly one flush and an empty buffer at
\* n = bufferSize, none below.
C1_BufferFullFlush ==
  (CallsFrom("reportMetric") = 1..Len(sent)) =>
    /\ Len(sent) = recorded \div bufferSize
    /\ Len(buffer) = recorded % bufferSize

C1_Witness ==
  /\ bufferSize = 2
  /\ recorded = bufferSize
  /\ Len(sent) = 1
  /\ sent[1].site = "reportMetric"
  /\ buffer = <<>>

\* C2: every destroy() leaves the buffer empty; if the buffer was non-empty it makes
\* exactly one transport call, carrying the buffered samples, and none if it was empty.
C2_DestroyFlushes ==
  [][handler' = "destroy" =>
       /\ buffer' = <<>>
       /\ IF buffer # <<>>
          THEN /\ Len(sent') = Len(sent) + 1
               /\ SubSeq(sent', 1, Len(sent)) = sent
               /\ Last(sent').report.metrics = buffer
          ELSE sent' = sent]_vars

C2_Witness ==
  /\ handler = "destroy"
  /\ buffer = <<>>
  /\ sent # <<>>
  /\ Last(sent).site = "destroy"
  /\ Len(Last(sent).report.metrics) = 2

\* C3: once destroy() has returned the buffer stays empty, whatever callback runs.
C3_NoSampleAfterDestroy == destroyed => buffer = <<>>

\* C4: a flush of a non-empty buffer (by the timer, beforeunload or destroy) makes one
\* transport call whose metrics are exactly the buffer's contents, in order, and leaves
\* the buffer empty; a flush caused by reportMetric hands over the buffer plus the
\* sample just recorded, and nothing else.
C4_FlushHandsOverBuffer ==
  [][/\ (handler' \in FlushHandlers /\ buffer # <<>>) =>
          /\ buffer' = <<>>
          /\ Len(sent') = Len(sent) + 1
          /\ SubSeq(sent', 1, Len(sent)) = sent
          /\ Last(sent').report.metrics = buffer
     /\ (handler' \notin FlushHandlers /\ sent' # sent) =>
          /\ buffer' = <<>>
          /\ Len(sent') = Len(sent) + 1
          /\ SubSeq(sent', 1, Len(sent)) = sent
          /\ Len(Last(sent').report.metrics) = Len(buffer) + 1
          /\ SubSeq(Last(sent').report.metrics, 1, Len(buffer)) = buffer
          /\ Last(Last(sent').report.metrics).id = recorded']_vars

C4_Witness ==
  /\ handler = "timer"
  /\ buffer = <<>>
  /\ sent # <<>>
  /\ Last(sent).site = "timer"
  /\ Len(Last(sent).report.metrics) = 2
  /\ Last(sent).report.metrics[1].id < Last(sent).report.metrics[2].id

\* C5: a flush on an empty buffer, from the timer, beforeunload or destroy, makes no
\* transport call and changes neither the buffer nor the metrics.
C5_EmptyFlushNoOp ==
  [][(handler' \in FlushHandlers /\ buffer = <<>>) =>
       /\ sent' = sent
       /\ buffer' = <<>>
       /\ coreWebVitals' = coreWebVitals
       /\ customMetrics' = customMetrics
       /\ recorded' = recorded]_vars

\* The timer ticked after another site had flushed: it found the buffer empty.
C5_Witness ==
  /\ handler = "timer"
  /\ recorded > 0
  /\ buffer = <<>>
  /\ sent # <<>>
  /\ Last(sent).site # "timer"

\* C6 as stated: immediate flushes always use the beacon, the others always fetch
\* with Content-Type application/json.
C6_Original ==
  \A i \in 1..Len(sent) :
    /\ sent[i].immediate <=> sent[i].site \in {"beforeunload", "destroy"}
    /\ sent[i].immediate => sent[i].via = "sendBeacon"
    /\ ~sent[i].immediate =>
         /\ sent[i].via = "fetch"
         /\ <<"Content-Type", "application/json">> \in sent[i].headers

\* C6 amended: an immediate flush (beforeunload, destroy) uses the beacon exactly when
\* navigator.sendBeacon exists and falls back to the JSON POST otherwise; a flush that
\* is not immediate (timer, buffer full) always uses the JSON POST.
C6_TransportSelection ==
  \A i \in 1..Len(sent) :
    /\ sent[i].immediate <=> sent[i].site \in {"beforeunload", "destroy"}
    /\ (sent[i].immediate /\ sendBeacon) => sent[i].via = "sendBeacon"
    /\ ~(sent[i].immediate /\ sendBeacon) =>
         /\ sent[i].via = "fetch"
         /\ <<"Content-Type", "application/json">> \in sent[i].headers

C6_Witness ==
  /\ ~sendBeacon
  /\ \E i \in 1..Len(sent) : sent[i].immediate /\ sent[i].via = "fetch"
  /\ \E i \in 1..Len(sent) : ~sent[i].immediate /\ sent[i].via = "fetch"

\* C7: while the timer keeps firing, every sample recorded by a live monitor is
\* eventually handed to the transport.
C7_EverySampleReported ==
  \A id \in 1..MaxSamples :
    (~destroyed /\ IsBuffered(id)) ~> IsSentSample(id)

C7_Witness ==
  /\ bufferSize > 1
  /\ \E i \in 1..Len(sent) :
       sent[i].site = "timer" /\ Len(sent[i].report.metrics) < bufferSize

\* C8: the reports handed to the transport followed by the buffer hold every recorded
\* sample exactly once, in the order recorded.
C8_ExactlyOnce ==
  /\ Len(AllSamples) = recorded
  /\ \A k \in 1..recorded : AllSamples[k].id = k

C8_Witness ==
  /\ recorded = 3
  /\ Len(sent) = 2
  /\ sent[1].site = "timer"
  /\ sent[2].site = "beforeunload"
  /\ Len(buffer) = 1

IsLcp(sample) == sample.name = "lcp"

LcpSamples == SelectSeq(AllSamples, IsLcp)

\* C9: after every LCP notification the stored LCP and the LCP sample reported last
\* both carry the startTime of the last entry of the batch delivered last.
C9_LastEntryWins ==
  lcpEntries # <<>> =>
    /\ "lcp" \in DOMAIN coreWebVitals
    /\ coreWebVitals["lcp"].value = Last(lcpEntries).startTime
    /\ LcpSamples # <<>>
    /\ Last(LcpSamples).data.value = Last(lcpEntries).startTime

\* A batch whose entries differ arrived after a notification with another value.
C9_Witness ==
  /\ Len(lcpEntries) = 2
  /\ lcpEntries[1].startTime # lcpEntries[2].startTime
  /\ Len(LcpSamples) >= 2
  /\ LcpSamples[Len(LcpSamples) - 1].data.value # lcpEntries[2].startTime
  /\ coreWebVitals["lcp"].value = lcpEntries[2].startTime

StartedSession == sessionEntries = <<lastShift.entry>>

JoinedSession ==
  /\ Len(sessionEntries) = lastShift.lenBefore + 1
  /\ Last(sessionEntries) = lastShift.entry

\* C10 as stated: with a session of non-zero sum under way, a shift not caused by input starts a new
\* session exactly when it comes more than 1000ms after the session's last entry or
\* more than 5000ms after its first, and joins the session otherwise.
C10_Original ==
  (/\ lastShift.processed
   /\ ~lastShift.entry.hadRecentInput
   /\ lastShift.lenBefore > 0
   /\ lastShift.sumBefore # 0) =>
    IF lastShift.gap > 1000 \/ lastShift.span > 5000
    THEN StartedSession
    ELSE JoinedSession

\* C10 amended: a shift not caused by input starts a new session exactly when the
\* current session sum is zero, or it comes 1000ms or more after the session's last
\* entry, or 5000ms or more after its first; otherwise it joins the session and its
\* value is added to the session sum.
C10_SessionSplit ==
  (lastShift.processed /\ ~lastShift.entry.hadRecentInput) =>
    IF lastShift.sumBefore = 0 \/ lastShift.gap >= 1000 \/ lastShift.span >= 5000
    THEN /\ StartedSession
         /\ sessionValue = lastShift.entry.value
    ELSE /\ JoinedSession
         /\ sessionValue = lastShift.sumBefore + lastShift.entry.value

\* A shift less than 1000ms after the previous one and exactly 5000ms after the
\* first entry of a session with a non-zero sum opened a new session.
C10_Witness ==
  /\ lastShift.processed
  /\ lastShift.sumBefore # 0
  /\ lastShift.gap < 1000
  /\ lastShift.span = 5000
  /\ StartedSession

IsCls(sample) == sample.name = "cls"

ClsSamples == SelectSeq(AllSamples, IsCls)

\* C11: clsValue is the largest session sum there has been; the CLS samples carry
\* strictly increasing values, the last of them clsValue, so a sample is emitted only
\* when the session sum exceeds the previous maximum.
C11_RunningMaximum ==
  /\ clsValue = Max2(lastShift.peakBefore, sessionValue)
  /\ \A k \in 1..(Len(ClsSamples) - 1) :
       ClsSamples[k].data.value < ClsSamples[k + 1].data.value
  /\ (clsValue > 0) <=> (ClsSamples # <<>>)
  /\ ClsSamples # <<>> =>
       /\ Last(ClsSamples).data.value = clsValue
       /\ coreWebVitals["cls"].value = clsValue

\* Two maxima were reported and the session under way is below the maximum.
C11_Witness ==
  /\ Len(ClsSamples) >= 2
  /\ lastShift.processed
  /\ sessionValue > 0
  /\ sessionValue < clsValue

\* C19: a layout-shift entry flagged hadRecentInput leaves the session's entries and
\* sum, the running maximum and the number of recorded samples as they were, and never
\* becomes part of a session, so the entries after it are split as if it had not come.
C19_RecentInputIgnored ==
  /\ \A k \in 1..Len(sessionEntries) : ~sessionEntries[k].hadRecentInput
  /\ (lastShift.processed /\ lastShift.entry.hadRecentInput) =>
       /\ Len(sessionEntries) = lastShift.lenBefore
       /\ sessionValue = lastShift.sumBefore
       /\ clsValue = lastShift.peakBefore
       /\ recorded = lastShift.recordedBefore
       /\ Len(ClsSamples) = recorded
  /\ sessionEntries # <<>> =>
       /\ Last(sessionEntries).startTime - sessionEntries[1].startTime < SessionSpan
       /\ \A k \in 1..(Len(sessionEntries) - 1) :
            sessionEntries[k + 1].startTime - sessionEntries[k].startTime < SessionGap

\* A flagged entry with a non-zero value arrived while a session with a non-zero sum
\* was under way, close enough to have joined it.
C19_Witness ==
  /\ lastShift.processed
  /\ lastShift.entry.hadRecentInput
  /\ lastShift.entry.value > 0
  /\ lastShift.sumBefore > 0
  /\ lastShift.gap < SessionGap

IsInp(sample) == sample.name = "inp"

InpSamples == SelectSeq(AllSamples, IsInp)

\* The window measureINP should hold once the first k interactions were pushed.
LastTen(k) == SliceLast(SubSeq(interactionLog, 1, k), WindowCapacity)

\* v stands at 0-based position idx of the ascending order of the window's latencies.
StandsAt(v, window, idx) ==
  /\ \E k \in 1..Len(window) : window[k].latency = v
  /\ Cardinality({k \in 1..Len(window) : window[k].latency < v}) <= idx
  /\ Cardinality({k \in 1..Len(window) : window[k].latency <= v}) > idx

\* C12: the window never holds more than 10 interactions and is always the last (at
\* most 10) interactions pushed, in arrival order; one INP sample is reported per push,
\* and its value stands at position floor(n * 0.98) of the sorted latencies of the
\* window of n interactions there was after that push.
C12_WindowOfTen ==
  /\ Len(interactions) <= WindowCapacity
  /\ interactions = LastTen(Len(interactionLog))
  /\ Len(InpSamples) = Len(interactionLog)
  /\ \A k \in 1..Len(InpSamples) :
       LET window == LastTen(k)
           n == Len(window)
       IN /\ InpSamples[k].data.interactions = n
          /\ StandsAt(InpSamples[k].data.value, window,
                      (n * PercentileNum) \div PercentileDen)
  /\ interactionLog # <<>> => coreWebVitals["inp"] = Last(InpSamples).data

\* More than 10 interactions were pushed and the evicted one had another latency
\* than the one that took its place.
C12_Witness ==
  /\ Len(interactionLog) > WindowCapacity
  /\ interactionLog[1].latency # Last(interactionLog).latency
  /\ interactionLog[1].latency # interactionLog[2].latency

\* The rating the bands lo and hi give to v, both bands upper-inclusive.
Band(v, lo, hi) ==
  CASE v > hi -> "poor"
    [] v > lo /\ v <= hi -> "needs-improvement"
    [] v <= lo -> "good"

Named(name) == SelectSeq(AllSamples, LAMBDA sample : sample.name = name)

\* C13: rateLCP is good up to and including 2500, needs-improvement up to and including
\* 4000 and poor above, and every LCP sample carries rateLCP of its value.
C13_LcpBands ==
  /\ \A v \in LCPBoundaryTimes : rateLCP(v) = Band(v, 2500, 4000)
  /\ rateLCP(2499) = "good" /\ rateLCP(2500) = "good"
  /\ rateLCP(2501) = "needs-improvement" /\ rateLCP(4001) = "poor"
  /\ \A k \in 1..Len(LcpSamples) :
       LcpSamples[k].data.rating = Band(LcpSamples[k].data.value, 2500, 4000)

\* LCP samples at 2500 and at 4000 were reported.
C13_Witness ==
  /\ \E k \in 1..Len(LcpSamples) : LcpSamples[k].data.value = 2500
  /\ \E k \in 1..Len(LcpSamples) : LcpSamples[k].data.value = 4000

\* C14: the k-th FID sample's value is processingStart - startTime of the k-th
\* first-input entry and is rated at 100/300; INP, FCP and TTI samples are rated at
\* 200/500, 1800/3000 and 3800/7300, every band upper-inclusive.
C14_VitalBands ==
  /\ Len(Named("fid")) = Len(firstInputLog)
  /\ \A k \in 1..Len(Named("fid")) :
       LET data == Named("fid")[k].data
       IN /\ data.value = firstInputLog[k].processingStart - firstInputLog[k].startTime
          /\ data.rating = Band(data.value, 100, 300)
  /\ \A k \in 1..Len(Named("inp")) :
       Named("inp")[k].data.rating = Band(Named("inp")[k].data.value, 200, 500)
  /\ \A k \in 1..Len(Named("fcp")) :
       Named("fcp")[k].data.rating = Band(Named("fcp")[k].data.value, 1800, 3000)
  /\ \A k \in 1..Len(Named("tti")) :
       Named("tti")[k].data.rating = Band(Named("tti")[k].data.value, 3800, 7300)

\* A first input whose delay is exactly 100 came after another event of the page and
\* was rated good.
C14_Witness ==
  /\ recorded = MaxVitals
  /\ Last(AllSamples).name = "fid"
  /\ Last(AllSamples).data.value = 100
  /\ Last(firstInputLog).startTime > 0
  /\ AllSamples[1].name \in {"inp", "fcp", "tti"}

\* The analyses that found an issue, in order: the ones that are reported.
WithIssues == SelectSeq(analyses, LAMBDA a : a.issues # <<>>)

\* C15: an analysed entry has 'slow_loading' among its issues exactly when
\* responseEnd - startTime is above 3000 (3001 has it, 3000 has not); the issues found
\* are the ones reported, and this.observer raises a slow_resource alert for exactly
\* the entries above 3000.
C15_SlowLoading ==
  /\ \A k \in 1..Len(analyses) :
       LET a == analyses[k]
           duration == a.entry.responseEnd - a.entry.startTime
       IN /\ ("slow_loading" \in Elements(a.issues)) <=> (duration > 3000)
          /\ duration = 3001 => "slow_loading" \in Elements(a.issues)
          /\ duration = 3000 => "slow_loading" \notin Elements(a.issues)
  /\ Len(Named("resource_issue")) = Len(WithIssues)
  /\ \A k \in 1..Len(WithIssues) :
       /\ Named("resource_issue")[k].data.issues = WithIssues[k].issues
       /\ Named("resource_issue")[k].data.analysis.name = WithIssues[k].entry.name
  /\ Len(Named("alert")) =
       Cardinality({k \in 1..Len(resourceTimings) : resourceTimings[k].duration > 3000})

\* Two entries of 3000ms and 3001ms were analysed, both reported, and this.observer
\* has seen a third.
C15_Witness ==
  /\ \E j, k \in 1..Len(analyses) :
       /\ analyses[j].entry.duration = 3000
       /\ analyses[j].issues = <<"not_cached">>
       /\ analyses[k].entry.duration = 3001
       /\ "slow_loading" \in Elements(analyses[k].issues)
  /\ Len(Named("resource_issue")) >= 2

\* C20 as stated: a zero transfer size is never flagged, a non-zero transfer size with
\* a matching extension is, other extensions never are.
C20_Original ==
  \A k \in 1..Len(analyses) :
    LET a == analyses[k]
        flagged == "not_cached" \in Elements(a.issues)
    IN /\ a.entry.transferSize = 0 => ~flagged
       /\ (a.entry.transferSize # 0 /\ a.entry.name \in CacheableNames) => flagged
       /\ a.entry.name \notin CacheableNames => ~flagged

\* C20 amended: a cache hit is a zero transfer size with a non-zero decoded body size;
\* an entry is flagged 'not_cached' exactly when it is not a cache hit and its URL ends
\* in .css, .js, .woff, .woff2, .png, .jpg or .jpeg.
C20_NotCached ==
  \A k \in 1..Len(analyses) :
    LET a == analyses[k]
        flagged == "not_cached" \in Elements(a.issues)
        hit == a.entry.transferSize = 0 /\ a.entry.decodedBodySize > 0
    IN flagged <=> (~hit /\ a.entry.name \in CacheableNames)

\* A stylesheet served from the cache was not flagged and one with all sizes zero was.
C20_Witness ==
  \E j, k \in 1..Len(analyses) :
    /\ analyses[j].entry.name \in CacheableNames
    /\ analyses[j].entry.transferSize = 0
    /\ analyses[j].entry.decodedBodySize > 0
    /\ "not_cached" \notin Elements(analyses[j].issues)
    /\ analyses[k].entry.name \in CacheableNames
    /\ analyses[k].entry.transferSize = 0
    /\ analyses[k].entry.decodedBodySize = 0
    /\ "not_cached" \in Elements(analyses[k].issues)

\* C18 as stated: each trackCustomMetric call and each trackCustomTiming call appends
\* one sample to the report buffer.
C18_Original ==
  [][handler' \in {"trackCustomMetric", "trackCustomTiming"} =>
       /\ Len(AllSamples') = Len(AllSamples) + 1
       /\ Last(AllSamples').name \in CustomNames]_vars

\* C18 amended: each trackCustomMetric call appends one sample to the report buffer,
\* which is in the buffer or in the report sent by that very call; each
\* trackCustomTiming call appends one record to this.metrics.userTimings and leaves
\* the buffer and the reports alone.
C18_CustomSamples ==
  [][/\ handler' = "trackCustomMetric" =>
          /\ Len(AllSamples') = Len(AllSamples) + 1
          /\ SubSeq(AllSamples', 1, Len(AllSamples)) = AllSamples
          /\ Last(AllSamples').name \in CustomNames
          /\ Last(AllSamples').id = recorded'
          /\ userTimings' = userTimings
     /\ handler' = "trackCustomTiming" =>
          /\ buffer' = buffer
          /\ sent' = sent
          /\ recorded' = recorded
          /\ Len(userTimings') = Len(userTimings) + 1
          /\ SubSeq(userTimings', 1, Len(userTimings)) = userTimings
          /\ Last(userTimings').type \in CustomTimingTypes]_vars

\* A timing was tracked while a custom metric was waiting in the buffer, after an
\* earlier report.
C18_Witness ==
  /\ handler = "trackCustomTiming"
  /\ userTimings # <<>>
  /\ buffer # <<>>
  /\ sent # <<>>

Rejected == {i \in 1..Len(sent) : <<i, "rejected">> \in settled}

\* C17: when a POST rejects, the step of the rejection changes neither the buffer nor
\* the calls made nor anything else of the monitor (no sample put back, no retry);
\* the samples of a rejected report are in no other call and not in the buffer; and
\* the buffer keeps being flushed when it is full.
C17_RejectedReportDropped ==
  /\ [](/\ \A i \in Rejected : \A k \in 1..Len(sent[i].report.metrics) :
            LET id == sent[i].report.metrics[k].id
            IN /\ ~IsBuffered(id)
               /\ \A j \in 1..Len(sent) : \A n \in 1..Len(sent[j].report.metrics) :
                    sent[j].report.metrics[n].id = id => (j = i /\ n = k)
        /\ Len(AllSamples) = recorded
        /\ Len(buffer) < bufferSize
        /\ reportTimer)
  /\ [][handler' = "fetch.catch" =>
          /\ Monitor' = Monitor
          /\ reportTimer' = reportTimer
          /\ Cardinality(Rejected') = Cardinality(Rejected) + 1]_vars

\* After the first report was rejected, a later sample filled the buffer and was
\* handed to fetch in a new call.
C17_Witness ==
  /\ 1 \in Rejected
  /\ Len(sent) >= 2
  /\ handler = "trackCustomMetric"
  /\ Last(sent).site = "reportMetric"
  /\ Len(sent) \in Pending

\* C16: in a browser without PerformanceObserver or without navigator.sendBeacon,
\* constructing the monitor with default options, and flushing later, raises no error.
C16_NoErrorWithoutCapability ==
  (options = DefaultOptions /\ (~performanceObserver \/ ~sendBeacon)) => phase # "threw"

\* The largest latency of a non-empty window.
MaxLatency(window) ==
  CHOOSE v \in {window[k].latency : k \in 1..Len(window)} :
    \A k \in 1..Len(window) : window[k].latency <= v

\* C25: for every window size n in 1..10 the index floor(n * 0.98) is n - 1, and the
\* INP value reported after each interaction is the largest latency of the window
\* there was after that interaction.
C25_InpIsMaximum ==
  /\ \A n \in 1..WindowCapacity : (n * PercentileNum) \div PercentileDen = n - 1
  /\ Len(interactions) <= WindowCapacity
  /\ \A k \in 1..Len(InpSamples) : InpSamples[k].data.value = MaxLatency(LastTen(k))
  /\ interactions # <<>> => coreWebVitals["inp"].value = MaxLatency(interactions)

\* The window is full, has evicted an interaction, and its largest latency is not
\* that of the interaction pushed last.
C25_Witness ==
  /\ Len(interactionLog) > WindowCapacity
  /\ Len(interactions) = WindowCapacity
  /\ Last(interactions).latency < coreWebVitals["inp"].value
  /\ interactions[1].latency < coreWebVitals["inp"].value

\* C26: between the callbacks the buffer holds fewer than bufferSize samples, and no
\* report carries more than bufferSize samples.
C26_BufferBound ==
  /\ bufferSize >= 1
  /\ Len(buffer) < bufferSize
  /\ \A i \in 1..Len(sent) : Len(sent[i].report.metrics) <= bufferSize

\* The buffer is one short of full again after a buffer-full flush.
C26_Witness ==
  /\ bufferSize > 1
  /\ Len(buffer) = bufferSize - 1
  /\ CallsFrom("reportMetric") # {}

\* C27: when the session sum is 0 (no entry yet, or only zero-valued shifts), the next
\* shift not caused by input starts a new session of which it is the only entry,
\* however close it is to the entries before it.
C27_ZeroSumStartsSession ==
  (/\ lastShift.processed
   /\ ~lastShift.entry.hadRecentInput
   /\ lastShift.sumBefore = 0) =>
    /\ sessionEntries = <<lastShift.entry>>
    /\ sessionValue = lastShift.entry.value
    /\ Len(sessionEntries) = 1

\* A shift came 5ms after a zero-valued shift, the only entry of its session, and
\* replaced it.
C27_Witness ==
  /\ lastShift.processed
  /\ lastShift.lenBefore > 0
  /\ lastShift.sumBefore = 0
  /\ lastShift.gap < SessionGap
  /\ lastShift.span < SessionSpan
  /\ lastShift.entry.value > 0
  /\ sessionEntries = <<lastShift.entry>>

\* The web_vital events the combined script has sent through gtag.
GtagEvents == SelectSeq(pagespeed.updates, LAMBDA u : u.gtag)

SameAggregation ==
  /\ pagespeed.sessionValue = sessionValue
  /\ pagespeed.sessionEntries = sessionEntries
  /\ pagespeed.clsValue = clsValue

\* C28 as stated: the two aggregations keep the same session sum, session entries and
\* maximum, and the combined script emits a CLS event for exactly the entries for
\* which the monitor reports a sample, with the same rating.
C28_Original ==
  /\ SameAggregation
  /\ Len(GtagEvents) = Len(ClsSamples)
  /\ \A k \in 1..Len(GtagEvents) : GtagEvents[k].rating = ClsSamples[k].data.rating

\* C28 amended: the two aggregations keep the same session sum, session entries and
\* maximum and raise the maximum on exactly the same entries, to the same value with
\* the same rating; the monitor reports each of these as a sample, the combined
\* script sends the event only if gtag is defined at that moment.
C28_SameAggregation ==
  /\ SameAggregation
  /\ Len(pagespeed.updates) = Len(ClsSamples)
  /\ \A k \in 1..Len(ClsSamples) :
       /\ pagespeed.updates[k].rating = ClsSamples[k].data.rating
       /\ pagespeed.updates[k].value = ClsSamples[k].data.value
  /\ \A j, k \in 1..Len(pagespeed.updates) :
       (j < k /\ pagespeed.updates[j].gtag) => pagespeed.updates[k].gtag
  /\ ~pagespeed.gtag => GtagEvents = <<>>

\* The maximum was raised twice, the first time before gtag was defined, and the
\* session under way is below the maximum.
C28_Witness ==
  /\ Len(pagespeed.updates) >= 2
  /\ ~pagespeed.updates[1].gtag
  /\ Last(pagespeed.updates).gtag
  /\ Len(ClsSamples) = Len(pagespeed.updates)
  /\ pagespeed.sessionValue < pagespeed.clsValue

\* The loadModule calls so far, and those for one module id.
Calls == codeSplittingOptimizer.calls

CallsOf(moduleId) == {k \in 1..Len(Calls) : Calls[k].moduleId = moduleId}

\* Call k was rejected by import(moduleId), before any init.
ImportFailed(k) == Calls[k].pc = "threw" /\ Calls[k].imported /\ ~Calls[k].inited

C29_ImportedOnce ==
  \A moduleId \in ModuleIds :
    /\ Cardinality({k \in CallsOf(moduleId) : Calls[k].imported}) <= 1
    /\ Cardinality({k \in CallsOf(moduleId) : Calls[k].inited}) <= 1

\* The retryFailedModule invocations so far, and the states in which one has returned.
Retries == codeSplittingOptimizer.retries

RetryDone == {"returned", "exhausted", "no-module-id"}

C23_UnchangedWithoutWebP ==
  imageOptimizer.constructed =>
    \A k \in 1..Len(imageOptimizer.conversions) :
      LET c == imageOptimizer.conversions[k]
      IN (c.check = "not supported" \/ ~imageOptimizer.options.webpSupport) =>
           c.result = c.argument

\* C30: the error listener assigns img.src at most twice for one image, once from
\* WebP to .jpg and once to the fallback image, however often its loads fail.
C30_BoundedReassignments ==
  imageOptimizer.constructed => imageOptimizer.img.reassigned <= 2

\* The stylesheet links of the document once run() has touched them.
Links == IF criticalCSSOptimizer.constructed THEN criticalCSSOptimizer.links ELSE <<>>

Restored(link) == link.media = "all" /\ ~link.deferred

\* C24: a stylesheet that deferStylesheet deferred (media 'print', data-deferred set)
\* eventually has media 'all' and no data-deferred, whether or not the load event of
\* window comes; it has them once its 3-second timer has fired; and once it has them it
\* keeps them.
C24_DeferredRestored ==
  /\ [](\A l \in 1..Len(Links) :
          /\ Links[l].deferred => (Links[l].media = "print" /\ Links[l].everDeferred)
          /\ (Links[l].everDeferred /\ FallbackDelay \notin Links[l].timers) =>
               Restored(Links[l]))
  /\ [][\A l \in 1..Len(Links) :
          (Links[l].everDeferred /\ Restored(Links[l])) =>
            Restored(criticalCSSOptimizer'.links[l])]_vars
  /\ \A l \in 1..MaxLinks :
       (Len(Links) >= l /\ Links[l].deferred) ~> (Len(Links) >= l /\ Restored(Links[l]))

\* On a page whose load event has not come, the 3-second timer has restored a
\* stylesheet that deferStylesheet had deferred and whose load listener still waits.
C24_Witness ==
  \E l \in 1..Len(Links) :
    /\ Links[l].everDeferred
    /\ Restored(Links[l])
    /\ Links[l].timers = {}
    /\ Links[l].loadListener
    /\ criticalCSSOptimizer.readyState = "interactive"
    /\ criticalCSSOptimizer.intersectionObserver

====
